---------------------------- MODULE Spec2Model ----------------------------
(***************************************************************************)
(* A model of the job scraper: the in-memory store (src/src/swe/db.py),    *)
(* the record model (src/src/swe/models.py), the paginated fetch client    *)
(* with its retry policy and the pipeline driver (src/src/swe/scraper.py). *)
(*                                                                         *)
(* The specifications share the definitions of the store:                  *)
(*   Spec          a caller that drives one InMemoryDB through save_jobs,  *)
(*                 clear and load_from_file in any order (as tests.py);    *)
(*   SpecSnapshot  the same caller with save_to_file, the load of the file *)
(*                 it wrote and the read methods;                          *)
(*   SpecPipeline  one run of main(): company list, paginated fetch with   *)
(*                 retries per company, normalisation, upsert, export;     *)
(*   SpecLive      SpecPipeline with a source that may return a token on   *)
(*                 every page, and the program's steps taken fairly;       *)
(*   SpecProgram   either of Spec's caller and main();                     *)
(*   SpecRecord    one call of normalize_date, normalize_location,         *)
(*                 normalize_job_data or the JobModel constructor on a     *)
(*                 value of any type.                                      *)
(***************************************************************************)
EXTENDS Integers, Sequences, FiniteSets, TLC

VARIABLES
    jobs,           \* InMemoryDB.jobs: the dict, as its insertion-ordered entries
    file,           \* the snapshot file at the path save_to_file writes
    wr,             \* save_to_file's position: "idle", or "open" once the file is truncated
    last,           \* caller's view of the last completed store call (see NoCall)
    base,           \* history: the store as the last clear/load left it
    hist,           \* history: every record passed to save_jobs since then, in order
    mpc,            \* main()'s position ("harness" under Spec)
    companies,      \* main: companies_to_process
    idx,            \* main: index of the company being processed (enumerate's i)
    successful_companies, \* main: counter of companies that returned records
    cpc,            \* fetch_company_jobs' position: "idle", "request", "returned", "raised"
    company,        \* fetch_company_jobs: its argument
    all_jobs,       \* fetch_company_jobs: accumulated raw jobs
    page_token,     \* fetch_company_jobs: token of the page to request next
    page_num,       \* fetch_company_jobs: page counter
    attempt,        \* _make_request_with_retry: the loop index
    request_count,  \* APIClient._request_count
    issued,         \* history: requests.get calls made by the client so far
    pageLog,        \* history: requests and sleeps of the page being requested
    pagesOk,        \* history: the pages of the current fetch answered with 200
    fetchFailed,    \* history: did an attempt of the current fetch not answer 200
    issuedAtCall,   \* history: the value of issued when the current fetch was called
    runLog,         \* history: main's fetch and upsert events, in order
    listLog,        \* history: the requests of fetch_company_list and how they ended
    conv            \* a call of the record model or of normalize_date: arguments and result

storeVars  == <<jobs, file, wr, last, base, hist>>
mainVars   == <<mpc, companies, idx, successful_companies, runLog, listLog, conv>>
clientVars == <<cpc, company, all_jobs, page_token, page_num, attempt,
                request_count, issued, pageLog, pagesOk, fetchFailed,
                issuedAtCall>>
vars == <<storeVars, mainVars, clientVars>>

(***************************************************************************)
(* Bounds of the model.                                                    *)
(***************************************************************************)
MaxBatch == 2
MaxSaved == 3
MaxFileJobs == 2
MaxPages == 2
MaxCompanies == 2
MaxPad == 1
MaxExp == 30
MaxCounted == 4

(***************************************************************************)
(* Values.  None is Python's None; a token is None, "" or an opaque string.*)
(***************************************************************************)
None == "None"

RECURSIVE Pow2(_)
Pow2(n) == IF n = 0 THEN 1 ELSE 2 * Pow2(n - 1)

Range(s) == {s[i] : i \in 1..Len(s)}

SeqsUpTo(S, n) == UNION {[1..k -> S] : k \in 0..n}

Max(S) == CHOOSE x \in S : \A y \in S : y <= x

(***************************************************************************)
(* models.py: JobModel.  A dict of fields is a record of kind "job"; the   *)
(* fields kept are the key, one payload field and the validated counter.   *)
(***************************************************************************)
JobIds == {"", "A", "B"}
Titles == {"Engineer", "Senior Engineer"}

\* field dicts as they arrive (from the API after normalisation, or from a snapshot)
JobDicts ==
    { [kind |-> "job", jobId |-> "A", title |-> "Engineer", applicants |-> 30],
      [kind |-> "job", jobId |-> "A", title |-> "Senior Engineer", applicants |-> -5],
      [kind |-> "job", jobId |-> "B", title |-> "Engineer", applicants |-> 25],
      [kind |-> "job", jobId |-> "", title |-> "Engineer", applicants |-> 30] }

\* __post_init__: a negative applicants count becomes 0
PostInitApplicants(a) == IF a < 0 THEN 0 ELSE a

\* JobModel(**d) for a dict d that has the required fields and no unknown one
JobModel(d) ==
    [jobId |-> d.jobId, title |-> d.title, applicants |-> PostInitApplicants(d.applicants)]

JobModels == {JobModel(d) : d \in JobDicts}

(***************************************************************************)
(* Python values as they arrive in a raw job or a snapshot entry.  A value *)
(* is a record of its type t, its text s and its sign n: a str carries its *)
(* characters; an int or a float carries the decimal digits of its         *)
(* magnitude (Python ints are unbounded) or "nan"/"inf"; a bool is 0 or 1. *)
(***************************************************************************)
PyStr(s) == [t |-> "str", s |-> s, n |-> 1]
PyInt(sign, digits) == [t |-> "int", s |-> digits, n |-> sign]
PyFloat(sign, digits) == [t |-> "float", s |-> digits, n |-> sign]
PyBool(b) == [t |-> "bool", s |-> IF b THEN "1" ELSE "0", n |-> 1]
PyNone == [t |-> "none", s |-> "", n |-> 1]
PyDict == [t |-> "dict", s |-> "{...}", n |-> 1]
PyList == [t |-> "list", s |-> "", n |-> 1]

\* bool(v) is False: None, "", 0, 0.0, False, an empty container
Falsy(v) ==
    \/ v.t = "none"
    \/ v.t \in {"str", "list", "dict"} /\ v.s = ""
    \/ v.t \in {"int", "float", "bool"} /\ v.s = "0"

\* isinstance(v, int): bool is a subclass of int
IsInstanceInt(v) == v.t \in {"int", "bool"}

(***************************************************************************)
(* Strings: the characters of a str, the tests and conversions on them.    *)
(***************************************************************************)
At(s, i) == SubSeq(s, i, i)

From(s, i) == SubSeq(s, i, Len(s))

DigitChars == "0123456789"
UpperChars == "ABCDEFGHIJKLMNOPQRSTUVWXYZ"
LowerChars == "abcdefghijklmnopqrstuvwxyz"
Whitespace == {" ", "\t"}

DigitTable == [c \in {At(DigitChars, i) : i \in 1..10} |->
                  (CHOOSE i \in 1..10 : At(DigitChars, i) = c) - 1]

IsDigit(c) == c \in DOMAIN DigitTable

DigitVal(c) == DigitTable[c]

AllDigits(s) == \A i \in 1..Len(s) : IsDigit(At(s, i))

\* int(s) for a short string of digits
RECURSIVE Num(_)
Num(s) ==
    IF s = "" THEN 0
    ELSE 10 * Num(SubSeq(s, 1, Len(s) - 1)) + DigitVal(At(s, Len(s)))

\* str(n) for n >= 0
RECURSIVE DigitStr(_)
DigitStr(n) ==
    IF n < 10 THEN At(DigitChars, n + 1)
    ELSE DigitStr(n \div 10) \o At(DigitChars, (n % 10) + 1)

\* str.strip()
RECURSIVE LStrip(_)
LStrip(s) == IF s # "" /\ At(s, 1) \in Whitespace THEN LStrip(From(s, 2)) ELSE s

RECURSIVE RStrip(_)
RStrip(s) ==
    IF s # "" /\ At(s, Len(s)) \in Whitespace
    THEN RStrip(SubSeq(s, 1, Len(s) - 1))
    ELSE s

Strip(s) == RStrip(LStrip(s))

LowerTable == [c \in {At(UpperChars, i) : i \in 1..26} |->
                  At(LowerChars, CHOOSE i \in 1..26 : At(UpperChars, i) = c)]

LowerChar(c) == IF c \in DOMAIN LowerTable THEN LowerTable[c] ELSE c

\* str.lower()
RECURSIVE Lower(_)
Lower(s) == IF s = "" THEN "" ELSE LowerChar(At(s, 1)) \o Lower(From(s, 2))

\* 'T' in s
Contains(s, c) == \E i \in 1..Len(s) : At(s, i) = c

\* s.split(c)[0]
SplitFirst(s, c) ==
    IF Contains(s, c)
    THEN SubSeq(s, 1, (CHOOSE i \in 1..Len(s) :
                          At(s, i) = c /\ \A j \in 1..(i - 1) : At(s, j) # c) - 1)
    ELSE s

(***************************************************************************)
(* Calendar dates: datetime's range and its validation of year, month, day.*)
(***************************************************************************)
IsLeap(y) == y % 4 = 0 /\ (y % 100 # 0 \/ y % 400 = 0)

DaysInMonth(y, m) ==
    IF m = 2 THEN (IF IsLeap(y) THEN 29 ELSE 28)
    ELSE IF m \in {4, 6, 9, 11} THEN 30 ELSE 31

\* datetime(y, m, d, H, M, S) does not raise ValueError
ValidDateTime(y, m, d, H, M, S) ==
    /\ y \in 1..9999        \* datetime.MINYEAR..datetime.MAXYEAR
    /\ m \in 1..12
    /\ d \in 1..DaysInMonth(y, m)
    /\ H \in 0..23 /\ M \in 0..59 /\ S \in 0..59

(***************************************************************************)
(* datetime.strptime.  A format is the sequence of its directives and      *)
(* literal characters ("ws" is a space of the format, which matches any    *)
(* run of whitespace).  DirLens gives the lengths of the prefixes of s that*)
(* a directive accepts, as the regular expression of the directive does.   *)
(***************************************************************************)
MonthNames ==
    <<"january", "february", "march", "april", "may", "june", "july",
      "august", "september", "october", "november", "december">>
MonthAbbrs ==
    <<"jan", "feb", "mar", "apr", "may", "jun", "jul", "aug", "sep", "oct",
      "nov", "dec">>
DayAbbrs == <<"mon", "tue", "wed", "thu", "fri", "sat", "sun">>

NameLens(names, s) ==
    {n \in {Len(names[i]) : i \in 1..Len(names)} :
        n <= Len(s) /\ \E i \in 1..Len(names) : names[i] = Lower(SubSeq(s, 1, n))}

\* one or two digits whose value is in lo..hi; a single digit only from lo1 up
NumLens(s, lo1, lo, hi) ==
    {n \in {1, 2} :
        /\ n <= Len(s)
        /\ AllDigits(SubSeq(s, 1, n))
        /\ IF n = 1 THEN Num(SubSeq(s, 1, 1)) >= lo1
                    ELSE Num(SubSeq(s, 1, 2)) \in lo..hi}

\* %z as written with hours and minutes: Z, +hhmm, +hh:mm
ZoneLens(s) ==
    {n \in {1, 5, 6} :
        /\ n <= Len(s)
        /\ LET x == SubSeq(s, 1, n) IN
           CASE n = 1 -> x = "Z"
             [] n = 5 -> /\ At(x, 1) \in {"+", "-"}
                         /\ AllDigits(From(x, 2))
                         /\ Num(SubSeq(x, 4, 5)) <= 59
             [] n = 6 -> /\ At(x, 1) \in {"+", "-"}
                         /\ AllDigits(SubSeq(x, 2, 3)) /\ At(x, 4) = ":"
                         /\ AllDigits(SubSeq(x, 5, 6))
                         /\ Num(SubSeq(x, 5, 6)) <= 59}

DirLens(dir, s) ==
    CASE dir = "Y" -> {n \in {4} : n <= Len(s) /\ AllDigits(SubSeq(s, 1, 4))}
      [] dir = "m" -> NumLens(s, 1, 1, 12)
      [] dir = "d" -> NumLens(s, 1, 1, 31)
                      \cup {n \in {2} : /\ n <= Len(s) /\ At(s, 1) = " "
                                        /\ IsDigit(At(s, 2)) /\ At(s, 2) # "0"}
      [] dir = "H" -> NumLens(s, 0, 0, 23)
      [] dir = "M" -> NumLens(s, 0, 0, 59)
      [] dir = "S" -> NumLens(s, 0, 0, 61)
      [] dir = "z" -> ZoneLens(s)
      [] dir = "B" -> NameLens(MonthNames, s)
      [] dir = "b" -> NameLens(MonthAbbrs, s)
      [] dir = "a" -> NameLens(DayAbbrs, s)
      [] dir = "ws" -> {n \in 1..Len(s) : \A i \in 1..n : At(s, i) \in Whitespace}
      [] OTHER -> {n \in {1} : n <= Len(s) /\ At(s, 1) = dir}

\* the ways the whole of s matches the format: the text taken by each directive
RECURSIVE StrpMatch(_, _)
StrpMatch(fmt, s) ==
    IF fmt = <<>> THEN (IF s = "" THEN {<<>>} ELSE {})
    ELSE UNION { { <<SubSeq(s, 1, n)>> \o rest :
                     rest \in StrpMatch(Tail(fmt), From(s, n + 1)) } :
                 n \in DirLens(Head(fmt), s) }

\* the value of directive dir in a match, dflt when the format has no such directive
Field(fmt, match, dir, names, dflt) ==
    IF \E i \in 1..Len(fmt) : fmt[i] = dir
    THEN LET x == match[CHOOSE i \in 1..Len(fmt) : fmt[i] = dir] IN
         IF names = <<>> THEN Num(Strip(x))
         ELSE CHOOSE i \in 1..Len(names) : names[i] = Lower(x)
    ELSE dflt

\* strptime(s, fmt): the date, or ok = FALSE for ValueError
Strptime(s, fmt) ==
    LET ms == StrpMatch(fmt, s) IN
    IF ms = {} THEN [ok |-> FALSE, y |-> 0, m |-> 0, d |-> 0]
    ELSE LET match == CHOOSE x \in ms : TRUE
             y == Field(fmt, match, "Y", <<>>, 1900)
             m == IF \E i \in 1..Len(fmt) : fmt[i] = "B"
                  THEN Field(fmt, match, "B", MonthNames, 1)
                  ELSE IF \E i \in 1..Len(fmt) : fmt[i] = "b"
                       THEN Field(fmt, match, "b", MonthAbbrs, 1)
                       ELSE Field(fmt, match, "m", <<>>, 1)
             d == Field(fmt, match, "d", <<>>, 1)
             H == Field(fmt, match, "H", <<>>, 0)
             M == Field(fmt, match, "M", <<>>, 0)
             S == Field(fmt, match, "S", <<>>, 0)
         IN  IF ValidDateTime(y, m, d, H, M, S)
             THEN [ok |-> TRUE, y |-> y, m |-> m, d |-> d]
             ELSE [ok |-> FALSE, y |-> 0, m |-> 0, d |-> 0]

\* strftime("%Y-%m-%d"): %m and %d are two digits; %Y is the year padded to four
\* digits or not, as the C library of the platform has it (pad4)
Pad2(n) == IF n < 10 THEN "0" \o DigitStr(n) ELSE DigitStr(n)

RECURSIVE ZeroFill(_, _)
ZeroFill(s, w) == IF Len(s) >= w THEN s ELSE ZeroFill("0" \o s, w)

Strftime(date, pad4) ==
    (IF pad4 THEN ZeroFill(DigitStr(date.y), 4) ELSE DigitStr(date.y))
        \o "-" \o Pad2(date.m) \o "-" \o Pad2(date.d)

(***************************************************************************)
(* datetime.fromtimestamp over Python's unbounded numbers.  A timestamp is *)
(* a number value; it is first converted to the platform's time_t (64 bits)*)
(* and then to a local date, here UTC.                                     *)
(***************************************************************************)
\* a <= b for decimal magnitudes without leading zeros
RECURSIVE LexLe(_, _)
LexLe(a, b) ==
    IF a = "" THEN TRUE
    ELSE IF At(a, 1) = At(b, 1) THEN LexLe(From(a, 2), From(b, 2))
    ELSE DigitVal(At(a, 1)) < DigitVal(At(b, 1))

DecLe(a, b) == Len(a) < Len(b) \/ (Len(a) = Len(b) /\ LexLe(a, b))

DecLt(a, b) == DecLe(a, b) /\ a # b

IsFinite(v) == v.s \notin {"nan", "inf"}

\* s // k and s % k by long division (the quotient is small)
RECURSIVE LongDiv(_, _, _, _)
LongDiv(s, k, q, r) ==
    IF s = "" THEN [q |-> q, r |-> r]
    ELSE LET x == r * 10 + DigitVal(At(s, 1))
         IN  LongDiv(From(s, 2), k, q * 10 + (x \div k), x % k)

\* the first and the last second fromtimestamp converts: 0001-01-02 00:00:00
\* and 9999-12-31 23:59:59
TsMinMagnitude == "62135510400"
TsMaxMagnitude == "253402300799"

\* 2^63, and the least magnitude whose nearest double is 2^63
TimeTLimit == "9223372036854775808"
DoubleTimeTLimit == "9223372036854775296"

\* the conversion to time_t does not raise OverflowError
InTimeT(ts) ==
    /\ IsFinite(ts)
    /\ IF ts.t = "float"
       THEN IF ts.n = 1 THEN DecLt(ts.s, DoubleTimeTLimit) ELSE DecLe(ts.s, TimeTLimit)
       ELSE IF ts.n = 1 THEN DecLt(ts.s, TimeTLimit) ELSE DecLe(ts.s, TimeTLimit)

\* the year of the timestamp is in datetime.MINYEAR..datetime.MAXYEAR
InYearRange(ts) ==
    IF ts.n = 1 THEN DecLe(ts.s, TsMaxMagnitude) ELSE DecLe(ts.s, TsMinMagnitude)

\* days since 1970-01-01, rounding down
DaysOf(ts) ==
    LET qr == LongDiv(ts.s, 86400, 0, 0) IN
    IF ts.n = 1 THEN qr.q ELSE IF qr.r = 0 THEN 0 - qr.q ELSE 0 - qr.q - 1

\* the proleptic Gregorian date of a day number
CivilFromDays(days) ==
    LET z   == days + 719468
        era == z \div 146097
        doe == z - era * 146097
        yoe == (doe - (doe \div 1460) + (doe \div 36524) - (doe \div 146096)) \div 365
        doy == doe - (365 * yoe + (yoe \div 4) - (yoe \div 100))
        mp  == (5 * doy + 2) \div 153
        d   == doy - ((153 * mp + 2) \div 5) + 1
        m   == IF mp < 10 THEN mp + 3 ELSE mp - 9
        y   == yoe + era * 400 + (IF m <= 2 THEN 1 ELSE 0)
    IN  [ok |-> TRUE, y |-> y, m |-> m, d |-> d]

\* datetime.fromtimestamp(ts): the date, or the exception raised
FromTimestamp(ts) ==
    IF ts.s = "nan" THEN [exc |-> "ValueError", date |-> CivilFromDays(0)]
    ELSE IF ~InTimeT(ts) THEN [exc |-> "OverflowError", date |-> CivilFromDays(0)]
    ELSE IF ~InYearRange(ts) THEN [exc |-> "ValueError", date |-> CivilFromDays(0)]
    ELSE [exc |-> "", date |-> CivilFromDays(DaysOf(ts))]

(***************************************************************************)
(* scraper.py: normalize_date.  The result is the string returned, or the  *)
(* exception that leaves the function.                                     *)
(***************************************************************************)
Returns(s) == [exc |-> "", ret |-> s]
Raises(e) == [exc |-> e, ret |-> ""]

\* line 285
SpecialCases == {"nat", "not available", "n/a", "na", "not specified", "unknown"}

\* "%B %d, %Y", "%a, %d %b %Y %H:%M:%S %z", "%m/%d/%Y", "%Y-%m-%d"
FmtMonthName == <<"B", "ws", "d", ",", "ws", "Y">>
FmtRfc ==
    <<"a", ",", "ws", "d", "ws", "b", "ws", "Y", "ws", "H", ":", "M", ":", "S",
      "ws", "z">>
FmtSlash == <<"m", "/", "d", "/", "Y">>
FmtIso == <<"Y", "-", "m", "-", "d">>

\* lines 278-327: the string branch
NormalizeDateStr(date_value, pad4) ==
    LET date_clean == Strip(date_value)
        byName  == Strptime(date_clean, FmtMonthName)
        byRfc   == Strptime(date_clean, FmtRfc)
        bySlash == Strptime(date_clean, FmtSlash)
        byPart  == Strptime(SplitFirst(date_clean, "T"), FmtIso)
        byIso   == Strptime(date_clean, FmtIso)
    IN  IF date_clean = "" THEN Returns("Unknown")
        ELSE IF Lower(date_clean) \in SpecialCases THEN Returns("Unknown")
        ELSE IF byName.ok THEN Returns(Strftime(byName, pad4))
        ELSE IF byRfc.ok THEN Returns(Strftime(byRfc, pad4))
        ELSE IF bySlash.ok THEN Returns(Strftime(bySlash, pad4))
        ELSE IF Contains(date_clean, "T") /\ byPart.ok
             THEN Returns(Strftime(byPart, pad4))
        ELSE IF byIso.ok THEN Returns(Strftime(byIso, pad4))
        ELSE Returns("Unknown")

\* line 333: date_value > 1e10
Above1e10(v) ==
    /\ v.n = 1
    /\ v.s # "nan"
    /\ v.s = "inf" \/ DecLt("10000000000", v.s)

\* line 334: date_value / 1000, a float; the fraction of a second is dropped
Div1000(v) ==
    IF v.s = "inf" THEN PyFloat(1, "inf")
    ELSE PyFloat(v.n, SubSeq(v.s, 1, Len(v.s) - 3))

\* lines 330-341: the number branch; only ValueError and OSError are caught
NormalizeDateNum(date_value, pad4) ==
    LET timestamp == IF Above1e10(date_value) THEN Div1000(date_value) ELSE date_value
        parsed == FromTimestamp(timestamp)
    IN  IF parsed.exc = "" THEN Returns(Strftime(parsed.date, pad4))
        ELSE IF parsed.exc \in {"ValueError", "OSError"} THEN Returns("Unknown")
        ELSE Raises(parsed.exc)

\* lines 270-343
NormalizeDate(date_value, pad4) ==
    IF Falsy(date_value) THEN Returns("Unknown")
    ELSE IF date_value.t = "str" THEN NormalizeDateStr(date_value.s, pad4)
    ELSE IF date_value.t \in {"int", "float", "bool"}
         THEN NormalizeDateNum(date_value, pad4)
    ELSE Returns("Unknown")

(***************************************************************************)
(* scraper.py: standardize_location_string and normalize_location.  A      *)
(* structured location is a dict value that carries its three sub-fields,  *)
(* each a Python value or Missing when the dict has no such key.           *)
(***************************************************************************)
Missing == [t |-> "missing", s |-> "", n |-> 1]

PyLocation(city, state, country) ==
    [t |-> "dict", s |-> "{...}", n |-> 1, city |-> city, state |-> state,
     country |-> country]

\* s.split(c)
RECURSIVE Split(_, _)
Split(s, c) ==
    IF Contains(s, c)
    THEN <<SplitFirst(s, c)>> \o Split(From(s, Len(SplitFirst(s, c)) + 2), c)
    ELSE <<s>>

\* str(v) of a str, an int or a bool
StrOf(v) ==
    CASE v.t = "str" -> v.s
      [] v.t = "int" -> IF v.n < 0 THEN "-" \o v.s ELSE v.s
      [] v.t = "bool" -> IF v.s = "1" THEN "True" ELSE "False"

\* line 185
UsAliases == {"usa", "us", "united states", "united states of america"}

\* a plausible bug: the country compared as written, not lower-cased
StandardizeLocationStringCaseSensitive(location_str) ==
    IF location_str = "" \/ ~Contains(location_str, ",") THEN location_str
    ELSE LET split == Split(location_str, ",")
             parts == [i \in 1..Len(split) |-> Strip(split[i])]
         IN  IF Len(parts) = 3
             THEN IF parts[3] \in UsAliases
                  THEN parts[1] \o ", " \o parts[2]
                  ELSE parts[1] \o ", " \o parts[3]
             ELSE location_str

\* lines 173-192
StandardizeLocationString(location_str) ==
    IF location_str = "" \/ ~Contains(location_str, ",") THEN location_str
    ELSE LET split == Split(location_str, ",")
             parts == [i \in 1..Len(split) |-> Strip(split[i])]
         IN  IF Len(parts) = 3
             THEN IF Lower(parts[3]) \in UsAliases
                  THEN parts[1] \o ", " \o parts[2]
                  ELSE parts[1] \o ", " \o parts[3]
             ELSE location_str

\* what normalize_location returns: a dict of location and workType, or a str
WorkTypeResult(workType) == [isDict |-> TRUE, location |-> "Unknown", workType |-> workType]
StrResult(s) == [isDict |-> FALSE, location |-> s, workType |-> ""]

\* lines 210-217 and 233-240: the words that stand for a work type or for no location
WorkTypeWords == {"remote", "on-site", "onsite", "on site", "hybrid"}
UnknownWords == {"unknown", "n/a", "na", "not available", "not specified"}

SpecialLocation(lower) ==
    IF lower \in {"remote"} THEN WorkTypeResult("Remote")
    ELSE IF lower \in {"on-site", "onsite", "on site"} THEN WorkTypeResult("On-site")
    ELSE IF lower \in {"hybrid"} THEN WorkTypeResult("Hybrid")
    ELSE StrResult("Unknown")

\* lines 222-228: str(location.get(key, '') or '').strip()
SubField(v) ==
    LET got == IF v = Missing THEN PyStr("") ELSE v IN
    Strip(StrOf(IF Falsy(got) THEN PyStr("") ELSE got))

\* a plausible bug: the words matched before the whitespace is stripped
NormalizeLocationStrUnstripped(location) ==
    LET location_clean == Strip(location)
        location_lower == Lower(location)
    IN  IF location_clean = "" THEN StrResult("Unknown")
        ELSE IF location_lower \in WorkTypeWords \cup UnknownWords
             THEN SpecialLocation(location_lower)
        ELSE StrResult(StandardizeLocationString(location_clean))

\* lines 203-220: a str
NormalizeLocationStr(location) ==
    LET location_clean == Strip(location)
        location_lower == Lower(location_clean)
    IN  IF location_clean = "" THEN StrResult("Unknown")
        ELSE IF location_lower \in WorkTypeWords \cup UnknownWords
             THEN SpecialLocation(location_lower)
        ELSE StrResult(StandardizeLocationString(location_clean))

\* lines 223-265: a dict
NormalizeLocationDict(location) ==
    LET city == SubField(location.city)
        state == SubField(location.state)
        country == SubField(location.country)
    IN  IF city # "" /\ Lower(city) \in WorkTypeWords \cup UnknownWords
        THEN SpecialLocation(Lower(city))
        ELSE IF city # "" /\ state # "" /\ country # ""
             THEN IF Lower(country) \in UsAliases
                  THEN StrResult(city \o ", " \o state)
                  ELSE StrResult(city \o ", " \o country)
        ELSE IF city # "" /\ state # "" THEN StrResult(city \o ", " \o state)
        ELSE IF city # "" /\ country # "" THEN StrResult(city \o ", " \o country)
        ELSE IF city # "" THEN StrResult(city)
        ELSE IF state # "" THEN StrResult(state)
        ELSE IF country # "" THEN StrResult(country)
        ELSE StrResult("Unknown")

\* lines 195-267
NormalizeLocation(location) ==
    IF Falsy(location) THEN StrResult("Unknown")
    ELSE IF location.t = "str" THEN NormalizeLocationStr(location.s)
    ELSE IF location.t = "dict" THEN NormalizeLocationDict(location)
    ELSE StrResult("Unknown")

(***************************************************************************)
(* models.py: JobModel.__post_init__ on the three validated fields.        *)
(***************************************************************************)
ValidWorkTypes == {PyStr("Remote"), PyStr("On-site"), PyStr("Hybrid"), PyStr("Unknown")}

\* lines 22-24
PostInitWorkType(workType) ==
    IF workType \notin ValidWorkTypes THEN PyStr("Unknown") ELSE workType

\* lines 27-28
PostInitCount(applicants) ==
    IF ~IsInstanceInt(applicants) \/ applicants.n < 0 THEN PyInt(1, "0") ELSE applicants

\* lines 31-35: strptime raises TypeError on a value that is not a str
PostInitDate(postedDate) ==
    IF postedDate = PyStr("Unknown") THEN [exc |-> "", val |-> postedDate]
    ELSE IF postedDate.t # "str" THEN [exc |-> "TypeError", val |-> postedDate]
    ELSE IF Strptime(postedDate.s, FmtIso).ok THEN [exc |-> "", val |-> postedDate]
    ELSE [exc |-> "", val |-> PyStr("Unknown")]

NoRecord == [workType |-> PyNone, applicants |-> PyNone, postedDate |-> PyNone]

\* lines 19-35: the fields of the record built, or the exception raised
PostInit(workType, applicants, postedDate) ==
    LET date == PostInitDate(postedDate) IN
    IF date.exc # "" THEN [exc |-> date.exc, rec |-> NoRecord]
    ELSE [exc |-> "",
          rec |-> [workType |-> PostInitWorkType(workType),
                   applicants |-> PostInitCount(applicants),
                   postedDate |-> date.val]]

(***************************************************************************)
(* scraper.py: normalize_job_data, on the fields of the raw job that the   *)
(* claims are about.  The workType of the raw job is not read.             *)
(***************************************************************************)
NoJob ==
    [location |-> "", workType |-> PyNone, applicants |-> PyNone,
     postedDate |-> PyNone]

\* lines 161-170: JobModel(...), the record returned or the exception raised
BuildJob(location, built) ==
    IF built.exc # "" THEN [exc |-> built.exc, job |-> NoJob]
    ELSE [exc |-> "",
          job |-> [location |-> location, workType |-> built.rec.workType,
                   applicants |-> built.rec.applicants,
                   postedDate |-> built.rec.postedDate]]

\* lines 148-170, with the results of normalize_location and normalize_date
NormalizeFields(location_result, posted_date, applicants) ==
    LET location == location_result.location
        work_type == IF location_result.isDict THEN location_result.workType
                     ELSE "Unknown"
    IN  IF posted_date.exc # "" THEN [exc |-> posted_date.exc, job |-> NoJob]
        ELSE BuildJob(location, PostInit(PyStr(work_type), applicants,
                                         PyStr(posted_date.ret)))

\* lines 137-170: the record returned, or the exception raised
NormalizeJobData(raw_location, raw_posted, raw_applicants, pad4) ==
    NormalizeFields(NormalizeLocation(raw_location), NormalizeDate(raw_posted, pad4),
                    raw_applicants)

(***************************************************************************)
(* The inputs of the functions.                                            *)
(***************************************************************************)
RECURSIVE Repeat(_, _)
Repeat(c, k) == IF k = 0 THEN "" ELSE c \o Repeat(c, k - 1)

YearFields == {"2025", "2024", "0005", "0000", "25"}
MonthFields == {"01", "1", "02", "12", "13", "0"}
DayFields == {"15", "5", "05", "29", "30", "31", "32"}
NameFields == {"January", "may", "Jan", "Foo"}
TimeFields ==
    {"10:30:00 +0000", "10:30:60 +0000", "1:3:0 Z", "10:30:00 GMT", "24:00:00 +00:00"}

DateTexts ==
    UNION { { y \o "-" \o m \o "-" \o d,
              m \o "/" \o d \o "/" \o y,
              y \o "-" \o m \o "-" \o d \o "T10:30:00.5+00:00" }
            \cup { b \o " " \o d \o ", " \o y : b \in NameFields }
            \cup { "Tue, " \o d \o " Jan " \o y \o " " \o t : t \in TimeFields } :
            y \in YearFields, m \in MonthFields, d \in DayFields }
    \cup {"", "invalid-date", "N/A", "Unknown", "T", "20250115", "2025-01- 5"}

DateStrings ==
    { PyStr(Repeat(" ", l) \o s \o Repeat(" ", r)) :
        s \in DateTexts, l \in 0..MaxPad, r \in 0..MaxPad }

\* powers of ten, which a float holds too (closely enough from 1e23 on)
PowersOfTen == { "1" \o Repeat("0", k) : k \in 0..MaxExp }

Magnitudes ==
    PowersOfTen
    \cup { "1736942400", "10000000001", "1736942400000", "253402300799999",
           "253402300800000", "62135510400", "62135510401",
           "9223372036854775807", "9223372036854775808", "9223372036854775809" }

DateNumbers ==
    { PyInt(sign, m) : sign \in {1, -1}, m \in Magnitudes }
    \cup { PyFloat(sign, m) :
             sign \in {1, -1},
             m \in PowersOfTen \cup {"1736942400", "1736942400000", "inf"} }
    \cup { PyInt(1, "0"), PyFloat(1, "0"), PyFloat(1, "nan"), PyBool(TRUE), PyBool(FALSE) }

DateValues == DateStrings \cup DateNumbers \cup {PyNone, PyDict, PyList}

WorkTypeValues == ValidWorkTypes \cup {PyStr("remote"), PyStr("InvalidType"), PyNone, PyList}

CountValues ==
    { PyInt(1, "42"), PyInt(1, "0"), PyInt(-1, "5"), PyFloat(1, "3"), PyStr("7"), PyNone,
      PyBool(TRUE) }

PostedValues ==
    { PyStr("2025-01-15"), PyStr("2025-1-5"), PyStr("2025-02-30"), PyStr("01/15/2025"),
      PyStr("Unknown"), PyStr(""), PyInt(1, "20250115"), PyNone }

LocationTexts ==
    {"Remote", "REMOTE", "remote", "On-site", "onsite", "ON SITE", "on site", "ON-SITE",
     "Hybrid", "hYbRiD", "Remotely", "on  site", "on_site", "unknown", "N/A",
     "Not Specified", "", "Austin", "New York, NY", "Austin,TX",
     "San Francisco, California, USA", "London, England, UK", "a,b,us", "A , B , Us",
     "Austin, Texas, United States", "Paris, IdF, United States of America",
     "Austin, Texas, U.S.", "Austin, Travis, Texas, USA", "Austin,,USA", ",,",
     "Austin, TX,", "Remote, CA, USA", "Austin, Remote"}

LocationStrings ==
    { PyStr(Repeat(" ", l) \o s \o Repeat("\t", r)) :
        s \in LocationTexts, l \in 0..MaxPad, r \in 0..MaxPad }

CityValues ==
    { Missing, PyNone, PyStr(""), PyStr(" "), PyStr("Austin"), PyStr(" Remote "),
      PyStr("ONSITE"), PyStr("On Site"), PyStr("hybrid"), PyStr("N/A"),
      PyStr("Remote, CA"), PyInt(1, "5"), PyInt(1, "0"), PyBool(TRUE) }
StateValues == { Missing, PyNone, PyStr("Texas"), PyStr(" TX "), PyStr(" "), PyInt(-1, "7") }
CountryValues ==
    { Missing, PyNone, PyStr("USA"), PyStr("us "), PyStr("United States"), PyStr("UK"),
      PyStr(""), PyBool(FALSE) }

LocationValues ==
    LocationStrings
    \cup { PyLocation(c, st, co) : c \in CityValues, st \in StateValues,
                                   co \in CountryValues }
    \cup { PyNone, [t |-> "dict", s |-> "", n |-> 1], PyList, PyInt(1, "5"), PyBool(TRUE) }

NoConv ==
    [op |-> "none", location |-> PyNone, workType |-> PyStr("Unknown"),
     applicants |-> PyInt(1, "0"), postedDate |-> PyStr("Unknown"), pad4 |-> TRUE,
     exc |-> "", ret |-> "", rec |-> NoRecord, loc |-> StrResult(""), job |-> NoJob]

\* the calls made: one validated field varies against the defaults of the others,
\* and the three vary together over the short lists
ConvInputs ==
    { [NoConv EXCEPT !.postedDate = v] : v \in DateValues }
    \cup { [NoConv EXCEPT !.workType = w, !.applicants = a, !.postedDate = p] :
             w \in WorkTypeValues, a \in CountValues, p \in PostedValues }
    \cup { [NoConv EXCEPT !.location = l, !.workType = w] :
             l \in LocationValues, w \in {PyStr("Unknown"), PyStr("Hybrid")} }

(***************************************************************************)
(* A Python dict: insertion-ordered entries <<key, val>>, keys unique.     *)
(***************************************************************************)
EmptyDict == <<>>

Keys(d) == {d[i].key : i \in 1..Len(d)}

Has(d, k) == k \in Keys(d)

\* d.get(k)
Get(d, k) ==
    IF Has(d, k)
    THEN d[CHOOSE i \in 1..Len(d) : d[i].key = k /\ \A j \in 1..(i - 1) : d[j].key # k].val
    ELSE None

Values(d) == [i \in 1..Len(d) |-> d[i].val]

\* a plausible bug: the store as a list that is appended to
DictSetAppend(d, k, v) == Append(d, [key |-> k, val |-> v])

\* d[k] = v: replaces the value in place, or appends a new entry
DictSet(d, k, v) ==
    IF Has(d, k)
    THEN [i \in 1..Len(d) |-> IF d[i].key = k THEN [key |-> k, val |-> v] ELSE d[i]]
    ELSE Append(d, [key |-> k, val |-> v])

(***************************************************************************)
(* db.py: InMemoryDB.save_jobs                                             *)
(***************************************************************************)
\* a plausible bug: no check of the key
SkipJobNever(job) == FALSE

\* line 24: `if not job.jobId: continue`
SkipJob(job) == job.jobId = ""

\* a plausible bug: every processed record counts as an insert
IsNewInsertAlways(store, job) == TRUE

\* line 28: `if job.jobId not in self.jobs`
IsNewInsert(store, job) == ~Has(store, job.jobId)

RECURSIVE SaveLoop(_, _, _)
SaveLoop(store, batch, new_inserts) ==
    IF batch = <<>>
    THEN [jobs |-> store, ret |-> new_inserts]
    ELSE LET job == Head(batch) IN
         IF SkipJob(job)
         THEN SaveLoop(store, Tail(batch), new_inserts)
         ELSE SaveLoop(DictSet(store, job.jobId, job), Tail(batch),
                       IF IsNewInsert(store, job) THEN new_inserts + 1 ELSE new_inserts)

\* a plausible bug: the batch replaces the mapping (`self.jobs = {...}`)
SaveJobsReplacesStore(store, batch) == SaveLoop(EmptyDict, batch, 0)

\* save_jobs(batch) on a store: the store after it and the returned count
SaveJobs(store, batch) == SaveLoop(store, batch, 0)

\* get_job, count
GetJob(job_id) == Get(jobs, job_id)
Count == Len(jobs)

\* get_all_jobs: list(self.jobs.values())
GetAllJobs(store) == Values(store)

\* a plausible bug: `total = job.applicants` for `total += job.applicants`
TotalStepAssign(total, job) == job.applicants

\* lines 116-117 of get_total_applicants; applicants of a JobModel is an int
TotalStep(total, job) == total + job.applicants

RECURSIVE TotalLoop(_, _)
TotalLoop(values, total) ==
    IF values = <<>> THEN total
    ELSE TotalLoop(Tail(values), TotalStep(total, Head(values)))

\* get_total_applicants
GetTotalApplicants(store) == TotalLoop(Values(store), 0)


(***************************************************************************)
(* The snapshot file: absent, unparsable (also what a truncated or half    *)
(* written file is), or a document with its metadata and its jobs list.    *)
(* saved_at is a wall-clock string that nothing reads; it is left out.     *)
(***************************************************************************)
Absent == [kind |-> "absent"]
Corrupt == [kind |-> "corrupt"]
Doc(entries) == [kind |-> "doc", total_jobs |-> Len(entries), jobs |-> entries]
\* valid JSON whose top level is no object (a list, a string, a number, null):
\* data.get at line 89 raises AttributeError
NotObject == [kind |-> "not_object"]
\* an object whose "jobs" value is no list: a number or null (the for of line 92 raises
\* TypeError) or a non-empty string or object (iterated by character or by key, and
\* each is an entry that is no dict)
BadJobs == [kind |-> "bad_jobs"]

\* an entry of a jobs list that is a dict but lacks a required field (TypeError in JobModel(**d))
EntryMissingField == [kind |-> "dict_missing_field"]
\* an entry that is no dict (null): JobModel(**None) raises, and so does job_dict.get in the handler
EntryNull == [kind |-> "null"]

Entries == JobDicts \cup {EntryMissingField, EntryNull}

\* a plausible bug: a field is left out of the export
AsDictDropsTitle(j) == [kind |-> "job", jobId |-> j.jobId, title |-> "", applicants |-> j.applicants]

\* dataclasses.asdict of a JobModel
AsDict(j) == [kind |-> "job", jobId |-> j.jobId, title |-> j.title, applicants |-> j.applicants]

\* lines 55-66: the export built from the store
ExportData(store) ==
    [kind |-> "doc", total_jobs |-> Len(store),
     jobs |-> [i \in 1..Len(store) |-> AsDict(store[i].val)]]

(***************************************************************************)
(* db.py: InMemoryDB.load_from_file                                        *)
(***************************************************************************)
\* a plausible bug: no check of the loaded key
LoadKeepsAlways(job) == TRUE

\* line 96: `if job.jobId:`
LoadKeeps(job) == job.jobId # ""

\* lines 92-100: the loop over jobs_data; an exception of the handler itself leaves the loop
RECURSIVE LoadLoop(_, _)
LoadLoop(store, entries) ==
    IF entries = <<>>
    THEN [jobs |-> store, ret |-> None]
    ELSE LET e == Head(entries) IN
         CASE e.kind = "job" ->
                LET job == JobModel(e) IN
                LoadLoop(IF LoadKeeps(job) THEN DictSet(store, job.jobId, job) ELSE store,
                         Tail(entries))
           [] e.kind = "dict_missing_field" -> LoadLoop(store, Tail(entries))
           [] OTHER -> [jobs |-> store, ret |-> "raised"]

\* a plausible bug: the store is cleared before the path is looked at
LoadFromFileClearsFirst(store, f) ==
    CASE f.kind = "absent" -> [jobs |-> EmptyDict, ret |-> None]
      [] f.kind = "corrupt" -> [jobs |-> EmptyDict, ret |-> "raised"]
      [] f.kind = "not_object" -> [jobs |-> EmptyDict, ret |-> "raised"]
      [] f.kind = "bad_jobs" -> [jobs |-> EmptyDict, ret |-> "raised"]
      [] OTHER -> LoadLoop(EmptyDict, f.jobs)

\* load_from_file on a store, f the content of the path: the store after it, and
\* ret None (returned) or "raised"
LoadFromFile(store, f) ==
    CASE f.kind = "absent" -> [jobs |-> store, ret |-> None]           \* lines 81-83
      [] f.kind = "corrupt" -> [jobs |-> store, ret |-> "raised"]      \* line 86
      [] f.kind = "not_object" -> [jobs |-> store, ret |-> "raised"]   \* line 89
      [] f.kind = "bad_jobs" -> [jobs |-> EmptyDict, ret |-> "raised"] \* lines 90-92
      [] OTHER -> LoadLoop(EmptyDict, f.jobs)

(***************************************************************************)
(* Spec: a caller of one InMemoryDB.                                       *)
(***************************************************************************)
Batches == SeqsUpTo(JobModels, MaxBatch)

LoadableFiles ==
    {Absent, Corrupt, NotObject, BadJobs}
    \cup {Doc(es) : es \in SeqsUpTo(Entries, MaxFileJobs)}

\* a completed call: op, its argument (batch, file: the content of the path, id), what
\* came back (ret: the number returned, raised: an exception, found: the records
\* returned), and the store before the call; fields a call does not use keep these values
NoCall ==
    [op |-> "none", batch |-> <<>>, file |-> Absent, id |-> "", ret |-> 0,
     raised |-> FALSE, found |-> <<>>, before |-> EmptyDict]

InitStore ==
    /\ jobs = EmptyDict
    /\ file = Absent
    /\ wr = "idle"
    /\ last = NoCall
    /\ base = EmptyDict
    /\ hist = <<>>

InitClient ==
    /\ cpc = "idle"
    /\ company = None
    /\ all_jobs = <<>>
    /\ page_token = None
    /\ page_num = 1
    /\ attempt = 0
    /\ request_count = 0
    /\ issued = 0
    /\ pageLog = <<>>
    /\ pagesOk = <<>>
    /\ fetchFailed = FALSE
    /\ issuedAtCall = 0

InitDriver(pc) ==
    /\ mpc = pc
    /\ companies = <<>>
    /\ idx = 0
    /\ successful_companies = 0
    /\ runLog = <<>>
    /\ listLog = <<>>

InitMain(pc) == InitDriver(pc) /\ conv = NoConv

Init == InitStore /\ InitClient /\ InitMain("harness")

Harness == mpc = "harness" /\ wr = "idle"

\* db.save_jobs(batch)
HSaveJobs ==
    /\ Harness
    /\ \E batch \in Batches :
        /\ Len(hist) + Len(batch) <= MaxSaved
        /\ LET r == SaveJobs(jobs, batch) IN
            /\ jobs' = r.jobs
            /\ last' = [NoCall EXCEPT !.op = "save_jobs", !.batch = batch, !.ret = r.ret,
                                      !.before = jobs]
        /\ hist' = hist \o batch
    /\ UNCHANGED <<file, wr, base, mainVars, clientVars>>

\* db.clear()
HClear ==
    /\ Harness
    /\ jobs' = EmptyDict
    /\ last' = [NoCall EXCEPT !.op = "clear", !.before = jobs]
    /\ base' = EmptyDict
    /\ hist' = <<>>
    /\ UNCHANGED <<file, wr, mainVars, clientVars>>

\* db.load_from_file(path): the written path, or any other path with any content
HLoadFromFile ==
    /\ Harness
    /\ \E f \in LoadableFiles \cup {file} :
        LET r == LoadFromFile(jobs, f) IN
            /\ jobs' = r.jobs
            /\ last' = [NoCall EXCEPT !.op = "load_from_file", !.file = f,
                                      !.raised = (r.ret = "raised"), !.before = jobs]
            /\ IF f.kind \in {"doc", "bad_jobs"}
               THEN base' = r.jobs /\ hist' = <<>>
               ELSE UNCHANGED <<base, hist>>
    /\ UNCHANGED <<file, wr, mainVars, clientVars>>

\* db.load_from_file(path) of the path that save_to_file writes
HLoadSnapshot ==
    /\ Harness
    /\ LET r == LoadFromFile(jobs, file) IN
            /\ jobs' = r.jobs
            /\ last' = [NoCall EXCEPT !.op = "load_from_file", !.file = file,
                                      !.raised = (r.ret = "raised"), !.before = jobs]
            /\ IF file.kind \in {"doc", "bad_jobs"}
               THEN base' = r.jobs /\ hist' = <<>>
               ELSE UNCHANGED <<base, hist>>
    /\ UNCHANGED <<file, wr, mainVars, clientVars>>

(***************************************************************************)
(* db.py: InMemoryDB.save_to_file, in the steps an observer of the path    *)
(* can tell apart: open(path, 'w') truncates, json.dump then writes.       *)
(***************************************************************************)
\* lines 52-69: mkdir or open fails; the path is not touched
SaveToFileFailOpen == wr = "idle" /\ wr' = "idle" /\ UNCHANGED <<jobs, file>>

\* line 69: open(filepath, 'w') has truncated the file
SaveToFileOpen == wr = "idle" /\ wr' = "open" /\ file' = Corrupt /\ UNCHANGED jobs

\* line 70: json.dump wrote the whole document; the file is closed
SaveToFileDump == wr = "open" /\ wr' = "idle" /\ file' = ExportData(jobs) /\ UNCHANGED jobs

\* a plausible bug: the handler of a failed write drops the store
SaveToFileFailWriteClears == wr = "open" /\ wr' = "idle" /\ jobs' = EmptyDict /\ UNCHANGED file

\* line 70: the write fails part-way; the exception is logged and raised again
SaveToFileFailWrite == wr = "open" /\ wr' = "idle" /\ UNCHANGED <<jobs, file>>

SaveReturn(r) ==
    [NoCall EXCEPT !.op = "save_to_file", !.raised = (r = "raised"), !.before = jobs]

HSaveToFileFailOpen ==
    /\ mpc = "harness" /\ SaveToFileFailOpen /\ last' = SaveReturn("raised")
    /\ UNCHANGED <<base, hist, mainVars, clientVars>>

HSaveToFileOpen ==
    /\ mpc = "harness" /\ SaveToFileOpen
    /\ UNCHANGED <<last, base, hist, mainVars, clientVars>>

HSaveToFileDump ==
    /\ mpc = "harness" /\ SaveToFileDump /\ last' = SaveReturn(None)
    /\ UNCHANGED <<base, hist, mainVars, clientVars>>

HSaveToFileFailWrite ==
    /\ mpc = "harness" /\ SaveToFileFailWrite /\ last' = SaveReturn("raised")
    /\ UNCHANGED <<base, hist, mainVars, clientVars>>

\* a read of the store: the call returns and assigns nothing
HRead(call) ==
    /\ last' = [call EXCEPT !.before = jobs]
    /\ UNCHANGED <<jobs, file, wr, base, hist, mainVars, clientVars>>

\* db.get_job(job_id): the record, or None
HGetJob ==
    /\ Harness
    /\ \E id \in JobIds :
        HRead([NoCall EXCEPT !.op = "get_job", !.id = id,
                             !.found = IF Has(jobs, id) THEN <<GetJob(id)>> ELSE <<>>])

\* db.count()
HCount ==
    /\ Harness
    /\ HRead([NoCall EXCEPT !.op = "count", !.ret = Count])

\* db.get_all_jobs()
HGetAllJobs ==
    /\ Harness
    /\ HRead([NoCall EXCEPT !.op = "get_all_jobs", !.found = GetAllJobs(jobs)])

\* db.get_total_applicants()
HGetTotalApplicants ==
    /\ Harness
    /\ HRead([NoCall EXCEPT !.op = "get_total_applicants", !.ret = GetTotalApplicants(jobs)])

Next ==
    \/ HSaveJobs
    \/ HClear
    \/ HLoadFromFile

Spec == Init /\ [][Next]_vars

\* the same caller, which also reads the store and exports it
NextSnapshot ==
    \/ HSaveJobs
    \/ HClear
    \/ HLoadSnapshot
    \/ HSaveToFileFailOpen
    \/ HSaveToFileOpen
    \/ HSaveToFileDump
    \/ HSaveToFileFailWrite
    \/ HGetJob
    \/ HCount
    \/ HGetAllJobs
    \/ HGetTotalApplicants

SpecSnapshot == Init /\ [][NextSnapshot]_vars

(***************************************************************************)
(* scraper.py: the remote source.  An attempt ends in a transport failure  *)
(* (requests.RequestException: timeout, connection error) or in a response *)
(* with a status; a 200 carries a body {jobs, nextPageToken} as section 6  *)
(* of the design describes it.  The source answers any request with any of *)
(* these; it returns a continuation token for at most MaxPages - 1 pages   *)
(* of one fetch.                                                           *)
(***************************************************************************)
Statuses == {200, 404, 500}
Tokens == {None, "t1", "t2"}

\* a raw job whose normalisation raises (postedDate 1e30: OverflowError in normalize_date)
RawOverflowDate == [kind |-> "dict_overflow_date"]
\* a raw job that is no dict (null): normalize_job_data raises, and so does job.get in main's handler
RawNull == [kind |-> "null"]

\* the jobs lists a page may carry
Bodies ==
    { <<>>,
      <<[kind |-> "job", jobId |-> "A", title |-> "Engineer", applicants |-> 30]>>,
      <<[kind |-> "job", jobId |-> "A", title |-> "Senior Engineer", applicants |-> -5],
        [kind |-> "job", jobId |-> "B", title |-> "Engineer", applicants |-> 25]>>,
      <<RawOverflowDate, [kind |-> "job", jobId |-> "", title |-> "Engineer", applicants |-> 30]>>,
      <<RawNull, [kind |-> "job", jobId |-> "B", title |-> "Engineer", applicants |-> 25]>> }

\* Python truthiness of a token: `if page_token`, `if not page_token`
Truthy(tok) == tok # None /\ tok # ""

\* the company lists /companies may answer with: the first n names of a roster
Roster == <<"acme", "globex", "initech", "umbrella">>
CompanyLists == {SubSeq(Roster, 1, n) : n \in 1..MaxCompanies}

(***************************************************************************)
(* scraper.py: APIClient                                                   *)
(***************************************************************************)
\* APIClient.__init__(max_retries=3), and main's APIClient(max_retries=3)
max_retries == 3

\* a plausible bug: one retry too many
RetryAllowedOffByOne(a) == a <= max_retries

\* lines 63, 77: `if attempt < self.max_retries`
RetryAllowed(a) == a < max_retries

\* a plausible bug: every error status is retried
IsServerErrorFrom400(status) == status >= 400

\* line 61: `elif response.status_code >= 500`
IsServerError(status) == status >= 500

\* a plausible bug: linear backoff
BackoffWaitLinear(a) == (a + 1) * 1

\* lines 64, 78: `wait_time = (2 ** attempt) * 1`
BackoffWait(a) == Pow2(a) * 1

\* a plausible bug: the token is never sent
RequestParamsNoToken(c, tok) == [company |-> c, pageToken |-> None]

\* lines 99-101: params; pageToken None stands for the absent parameter
RequestParams(c, tok) == [company |-> c, pageToken |-> IF Truthy(tok) THEN tok ELSE None]

\* a plausible bug: the handler of fetch_company_jobs is missing
OnRequestExceptionPropagates == "raised"

\* lines 127-129: the exception of the last attempt is caught; break, return all_jobs
OnRequestException == "returned"

\* how an attempt ended: requests.get raised (no status), or answered with a status
Raised == [exc |-> TRUE, status |-> 0]
Answered(status) == [exc |-> FALSE, status |-> status]

\* the events of pageLog: a requests.get with its params and its outcome, a sleep
ReqEvent(outcome) ==
    [ev |-> "req", params |-> RequestParams(company, page_token), exc |-> outcome.exc,
     status |-> outcome.status, secs |-> 0]
SleepEvent(secs) ==
    [ev |-> "sleep", params |-> RequestParams(company, page_token), exc |-> FALSE,
     status |-> 0, secs |-> secs]

\* a plausible bug: the retry starts the pagination over
ClientRetryLosesToken(outcome) ==
    /\ pageLog' = pageLog \o <<ReqEvent(outcome), SleepEvent(BackoffWait(attempt))>>
    /\ attempt' = attempt + 1
    /\ cpc' = "request"
    /\ page_token' = None
    /\ UNCHANGED <<company, all_jobs, page_num, pagesOk, issuedAtCall>>

\* lines 66-67, 80-81: sleep(wait_time); continue
ClientRetry(outcome) ==
    /\ pageLog' = pageLog \o <<ReqEvent(outcome), SleepEvent(BackoffWait(attempt))>>
    /\ attempt' = attempt + 1
    /\ cpc' = "request"
    /\ UNCHANGED <<company, all_jobs, page_token, page_num, pagesOk, issuedAtCall>>

\* the loop of fetch_company_jobs is left: lines 125, 129, then 131-134
ClientGiveUp(outcome, pc) ==
    /\ pageLog' = Append(pageLog, ReqEvent(outcome))
    /\ cpc' = pc
    /\ UNCHANGED <<company, all_jobs, page_token, page_num, attempt, pagesOk, issuedAtCall>>

\* line 56 raises requests.RequestException; line 57 is not reached
ClientTransportFailure ==
    /\ cpc = "request"
    /\ issued' = issued + 1
    /\ request_count' = request_count
    /\ fetchFailed' = TRUE
    /\ IF RetryAllowed(attempt)
       THEN ClientRetry(Raised)
       ELSE ClientGiveUp(Raised, OnRequestException)
    /\ UNCHANGED <<storeVars, mainVars>>

\* lines 56-60 and 106-118: a 200; its jobs are appended, its token decides the loop
Client200 ==
    /\ cpc = "request"
    /\ \E body \in Bodies, next \in Tokens :
        /\ Truthy(next) => page_num < MaxPages
        /\ issued' = issued + 1
        /\ request_count' = request_count + 1
        /\ all_jobs' = all_jobs \o body
        /\ page_token' = next
        /\ pagesOk' = Append(pagesOk, [sent |-> RequestParams(company, page_token),
                                      jobs |-> body, next |-> next])
        /\ IF ~Truthy(next)
           THEN /\ cpc' = "returned"
                /\ pageLog' = Append(pageLog, ReqEvent(Answered(200)))
                /\ UNCHANGED <<page_num, attempt>>
           ELSE /\ cpc' = "request"
                /\ page_num' = page_num + 1
                /\ attempt' = 0
                /\ pageLog' = <<>>
    /\ UNCHANGED <<company, fetchFailed, issuedAtCall, storeVars, mainVars>>

\* lines 61-70: a 5xx; retried with backoff, or returned after the last attempt,
\* and then lines 120-125
ClientServerError ==
    /\ cpc = "request"
    /\ \E status \in Statuses \ {200} :
        /\ IsServerError(status)
        /\ issued' = issued + 1
        /\ request_count' = request_count + 1
        /\ fetchFailed' = TRUE
        /\ IF RetryAllowed(attempt)
           THEN ClientRetry(Answered(status))
           ELSE ClientGiveUp(Answered(status), "returned")
    /\ UNCHANGED <<storeVars, mainVars>>

\* lines 71-74: any other status; returned at once, and then lines 120-125
ClientOtherStatus ==
    /\ cpc = "request"
    /\ \E status \in Statuses \ {200} :
        /\ ~IsServerError(status)
        /\ issued' = issued + 1
        /\ request_count' = request_count + 1
        /\ fetchFailed' = TRUE
        /\ ClientGiveUp(Answered(status), "returned")
    /\ UNCHANGED <<storeVars, mainVars>>

(***************************************************************************)
(* scraper.py: main                                                        *)
(***************************************************************************)
\* the events of runLog: fetch_company_jobs is called, it returns (any: with records),
\* save_jobs is called
FetchEvent == [ev |-> "fetch", i |-> idx, company |-> companies[idx], any |-> FALSE]
ReturnEvent == [ev |-> "return", i |-> idx, company |-> companies[idx], any |-> all_jobs # <<>>]
UpsertEvent == [ev |-> "upsert", i |-> idx, company |-> companies[idx], any |-> all_jobs # <<>>]

InitPipeline == InitStore /\ InitClient /\ InitMain("start")

\* how the one request of fetch_company_list ends: requests.get raises, or a response
\* with a status and a body whose "companies" is a list (any status may carry one)
ListOutcomes ==
    {[exc |-> TRUE, status |-> 0, companies |-> <<>>]} \cup
    {[exc |-> FALSE, status |-> st, companies |-> cs] :
        st \in Statuses, cs \in CompanyLists \cup {<<>>}}

\* a plausible bug: the status of the response is not looked at
RaiseForStatusNever(status) == FALSE

\* line 34: response.raise_for_status() raises HTTPError, a RequestException
RaiseForStatus(status) == status >= 400

\* lines 32-44: what fetch_company_list returns
FetchCompanyList(o) ==
    IF o.exc THEN <<>>
    ELSE IF RaiseForStatus(o.status) THEN <<>>
    ELSE o.companies

\* lines 356-359: fetch_company_list returned [] (a failure, or an empty list); main returns
MainNoCompanies ==
    /\ mpc = "start"
    /\ \E o \in ListOutcomes :
        /\ FetchCompanyList(o) = <<>>
        /\ listLog' = Append(listLog, o)
    /\ mpc' = "done"
    /\ UNCHANGED <<conv, companies, idx, successful_companies, runLog, storeVars, clientVars>>

\* lines 356-365: the list arrived; the client is built
MainCompanies ==
    /\ mpc = "start"
    /\ \E o \in ListOutcomes :
        /\ FetchCompanyList(o) # <<>>
        /\ listLog' = Append(listLog, o)
        /\ companies' = FetchCompanyList(o)
    /\ idx' = 1
    /\ mpc' = "loop"
    /\ UNCHANGED <<conv, successful_companies, runLog, storeVars, clientVars>>

\* line 368 and lines 92-96: fetch_company_jobs(company) is called
MainCallFetch ==
    /\ mpc = "loop"
    /\ mpc' = "fetching"
    /\ runLog' = Append(runLog, FetchEvent)
    /\ company' = companies[idx]
    /\ all_jobs' = <<>>
    /\ page_token' = None
    /\ page_num' = 1
    /\ attempt' = 0
    /\ cpc' = "request"
    /\ pageLog' = <<>>
    /\ pagesOk' = <<>>
    /\ fetchFailed' = FALSE
    /\ issuedAtCall' = issued
    /\ UNCHANGED <<listLog, conv, companies, idx, successful_companies, request_count, issued, storeVars>>

\* lines 373-379: the normalised jobs; raised when the handler of line 378 itself raises
RECURSIVE Normalize(_, _)
Normalize(raw, normalized_jobs) ==
    IF raw = <<>>
    THEN [raised |-> FALSE, jobs |-> normalized_jobs]
    ELSE LET job == Head(raw) IN
         CASE job.kind = "job" -> Normalize(Tail(raw), Append(normalized_jobs, JobModel(job)))
           [] job.kind = "dict_overflow_date" -> Normalize(Tail(raw), normalized_jobs)
           [] OTHER -> [raised |-> TRUE, jobs |-> normalized_jobs]

\* does the iteration of main's loop end in an exception
MainRaises == IF cpc = "raised" THEN TRUE ELSE Normalize(all_jobs, <<>>).raised

\* the locals of the call of fetch_company_jobs that ended are gone, and its history
\* with them
ClientGone ==
    /\ cpc' = "idle"
    /\ company' = None
    /\ all_jobs' = <<>>
    /\ page_token' = None
    /\ page_num' = 1
    /\ attempt' = 0
    /\ pageLog' = <<>>
    /\ pagesOk' = <<>>
    /\ fetchFailed' = FALSE
    /\ issuedAtCall' = issued
    /\ UNCHANGED <<request_count, issued>>

\* line 365: the next company, or the end of the loop
MainAdvance ==
    /\ idx' = idx + 1
    /\ mpc' = IF idx < Len(companies) THEN "loop" ELSE "export"
    /\ ClientGone

\* lines 370-384: the jobs are normalised and saved
MainUpsert ==
    /\ mpc = "fetching" /\ cpc = "returned"
    /\ all_jobs # <<>>
    /\ ~MainRaises
    /\ LET normalized_jobs == Normalize(all_jobs, <<>>).jobs IN
        /\ jobs' = SaveJobs(jobs, normalized_jobs).jobs
        /\ runLog' = runLog \o <<ReturnEvent, UpsertEvent>>
    /\ successful_companies' = successful_companies + 1
    /\ MainAdvance
    /\ UNCHANGED <<listLog, conv, companies, file, wr, last, base, hist>>

\* lines 385-386: no jobs for this company
MainNoJobs ==
    /\ mpc = "fetching" /\ cpc = "returned"
    /\ all_jobs = <<>>
    /\ runLog' = Append(runLog, ReturnEvent)
    /\ MainAdvance
    /\ UNCHANGED <<listLog, conv, companies, successful_companies, storeVars>>

\* an exception leaves main: nothing in main catches what fetch_company_jobs raises,
\* and the handler of line 378 itself raises on a raw job that has no .get
MainCrash ==
    /\ mpc = "fetching" /\ cpc \in {"returned", "raised"}
    /\ MainRaises
    /\ mpc' = "crashed"
    /\ runLog' = Append(runLog, ReturnEvent)
    /\ ClientGone
    /\ UNCHANGED <<listLog, conv, companies, idx, successful_companies, storeVars>>

\* lines 401-415: the summary, from count(), get_total_applicants() and the counters
SummaryEvent ==
    [ev |-> "summary", total_jobs |-> Count, total_applicants |-> GetTotalApplicants(jobs),
     requests |-> request_count]

\* lines 394-415: save_to_file; a failure is caught and logged; the summary follows
MainExportFailOpen ==
    /\ mpc = "export" /\ SaveToFileFailOpen /\ mpc' = "done"
    /\ runLog' = Append(runLog, SummaryEvent)
    /\ UNCHANGED <<listLog, conv, companies, idx, successful_companies, last, base, hist, clientVars>>

MainExportOpen ==
    /\ mpc = "export" /\ SaveToFileOpen /\ mpc' = "export"
    /\ UNCHANGED <<listLog, conv, companies, idx, successful_companies, runLog, last, base, hist, clientVars>>

MainExportDump ==
    /\ mpc = "export" /\ SaveToFileDump /\ mpc' = "done"
    /\ runLog' = Append(runLog, SummaryEvent)
    /\ UNCHANGED <<listLog, conv, companies, idx, successful_companies, last, base, hist, clientVars>>

MainExportFailWrite ==
    /\ mpc = "export" /\ SaveToFileFailWrite /\ mpc' = "done"
    /\ runLog' = Append(runLog, SummaryEvent)
    /\ UNCHANGED <<listLog, conv, companies, idx, successful_companies, last, base, hist, clientVars>>

NextPipeline ==
    \/ MainNoCompanies
    \/ MainCompanies
    \/ MainCallFetch
    \/ ClientTransportFailure
    \/ Client200
    \/ ClientServerError
    \/ ClientOtherStatus
    \/ MainUpsert
    \/ MainNoJobs
    \/ MainCrash
    \/ MainExportFailOpen
    \/ MainExportOpen
    \/ MainExportDump
    \/ MainExportFailWrite

SpecPipeline == InitPipeline /\ [][NextPipeline]_vars

(***************************************************************************)
(* SpecLive: a run of main against a source that is free to return a       *)
(* continuation token on every page, with the steps of the program taken   *)
(* as long as one is possible.  Past page MaxPages only what the loop of   *)
(* fetch_company_jobs reads is kept exactly: such a page is empty and      *)
(* carries a token, the histories of the pages are not extended, page_num  *)
(* (used in a log line only) stays, and the two request counters count up  *)
(* to MaxCounted; the source answers such a page at the first attempt.     *)
(***************************************************************************)
Saturating(n) == IF n < MaxCounted THEN n + 1 ELSE n

\* lines 56-60 and 106-118: a 200 with no jobs and a token, on a page past MaxPages
Client200More ==
    /\ cpc = "request"
    /\ page_num = MaxPages
    /\ attempt = 0
    /\ \E next \in Tokens :
        /\ Truthy(next)
        /\ page_token' = next
    /\ all_jobs' = all_jobs \o <<>>
    /\ issued' = Saturating(issued)
    /\ request_count' = Saturating(request_count)
    /\ attempt' = 0
    /\ pageLog' = <<>>
    /\ cpc' = "request"
    /\ UNCHANGED <<company, page_num, pagesOk, fetchFailed, issuedAtCall, storeVars,
                   mainVars>>

NextLive == NextPipeline \/ Client200More

SpecLive == InitPipeline /\ [][NextLive]_vars /\ WF_vars(NextLive)

(***************************************************************************)
(* The program used either way: a caller of the store, or a run of main.   *)
(***************************************************************************)
InitProgram == InitStore /\ InitClient /\ (InitMain("harness") \/ InitMain("start"))

NextProgram == NextSnapshot \/ NextPipeline

SpecProgram == InitProgram /\ [][NextProgram]_vars

(***************************************************************************)
(* SpecRecord: a caller that applies one of the normalizing functions or   *)
(* builds a JobModel, once, on one of the inputs.                          *)
(***************************************************************************)
InitRecord == InitStore /\ InitClient /\ InitDriver("model") /\ conv \in ConvInputs

\* scraper.py normalize_date(date_value), on a platform that pads %Y or not
CallNormalizeDate ==
    /\ mpc = "model"
    /\ conv.op = "none"
    /\ \E pad4 \in BOOLEAN :
        LET r == NormalizeDate(conv.postedDate, pad4) IN
        conv' = [conv EXCEPT !.op = "normalize_date", !.pad4 = pad4,
                             !.exc = r.exc, !.ret = r.ret]
    /\ UNCHANGED <<mpc, companies, idx, successful_companies, runLog, listLog,
                   storeVars, clientVars>>

\* JobModel(..., workType=, applicants=, postedDate=), as db.py:95 and the tests call it
CallJobModel ==
    /\ mpc = "model"
    /\ conv.op = "none"
    /\ LET r == PostInit(conv.workType, conv.applicants, conv.postedDate) IN
       conv' = [conv EXCEPT !.op = "JobModel", !.exc = r.exc, !.rec = r.rec]
    /\ UNCHANGED <<mpc, companies, idx, successful_companies, runLog, listLog,
                   storeVars, clientVars>>

\* scraper.py normalize_location(location)
CallNormalizeLocation ==
    /\ mpc = "model"
    /\ conv.op = "none"
    /\ conv' = [conv EXCEPT !.op = "normalize_location",
                            !.loc = NormalizeLocation(conv.location)]
    /\ UNCHANGED <<mpc, companies, idx, successful_companies, runLog, listLog,
                   storeVars, clientVars>>

\* scraper.py normalize_job_data(job), on a platform that pads %Y or not
CallNormalizeJobData ==
    /\ mpc = "model"
    /\ conv.op = "none"
    /\ \E pad4 \in BOOLEAN :
        \E r \in {NormalizeJobData(conv.location, conv.postedDate, conv.applicants, pad4)} :
            conv' = [conv EXCEPT !.op = "normalize_job_data", !.pad4 = pad4,
                                 !.exc = r.exc, !.job = r.job]
    /\ UNCHANGED <<mpc, companies, idx, successful_companies, runLog, listLog,
                   storeVars, clientVars>>

NextRecord ==
    CallNormalizeDate \/ CallJobModel \/ CallNormalizeLocation \/ CallNormalizeJobData

SpecRecord == InitRecord /\ [][NextRecord]_vars

(***************************************************************************)
(* Claims on the store, checked under Spec.                                *)
(***************************************************************************)
\* the positions of hist whose record carries this id
Occ(id) == {i \in 1..Len(hist) : hist[i].jobId = id}

\* C1: after any sequence of save_jobs calls the store holds at most one record per
\* jobId, and get_job(id) is exactly the record of the most recent occurrence of id
\* among the records passed to save_jobs (latest call, latest position in a call),
\* whole and unmerged; an id never passed since the last clear/load keeps what that
\* clear/load left.  (Empty ids are never resident: C3.)
C1_LastWriteWins ==
    /\ \A i, j \in 1..Len(jobs) : jobs[i].key = jobs[j].key => i = j
    /\ \A id \in JobIds \ {""} :
        IF Occ(id) # {}
        THEN GetJob(id) = hist[Max(Occ(id))]
        ELSE GetJob(id) = Get(base, id)

\* a resident id is saved twice in one call with two payloads; the later one is resident
C1_Witness ==
    /\ last.op = "save_jobs"
    /\ Len(last.batch) = 2
    /\ last.batch[1].jobId = last.batch[2].jobId
    /\ last.batch[1] # last.batch[2]
    /\ Has(last.before, last.batch[1].jobId)
    /\ GetJob(last.batch[2].jobId) # Get(last.before, last.batch[2].jobId)
    /\ GetJob(last.batch[2].jobId) = last.batch[2]

\* the distinct non-empty ids of a batch that are not keys of the store
NewIds(store, batch) == ({batch[i].jobId : i \in 1..Len(batch)} \ {""}) \ Keys(store)

\* C2: save_jobs returns the number of distinct non-empty jobIds of the batch that were
\* not in the store before the call; upserting one resident id with another payload
\* returns 0, leaves count() unchanged, and get_job gives the new payload.
C2_InsertedCount ==
    last.op = "save_jobs" =>
        /\ last.ret = Cardinality(NewIds(last.before, last.batch))
        /\ \A r \in JobModels :
            (last.batch = <<r>> /\ Has(last.before, r.jobId) /\ Get(last.before, r.jobId) # r)
                => /\ last.ret = 0
                   /\ Count = Len(last.before)
                   /\ GetJob(r.jobId) = r

\* a resident id is upserted with a different payload
C2_Witness ==
    /\ last.op = "save_jobs"
    /\ Len(last.batch) = 1
    /\ Has(last.before, last.batch[1].jobId)
    /\ Get(last.before, last.batch[1].jobId) # last.batch[1]
    /\ last.ret = 0

HasId(r) == r.jobId # ""
NotEmptyIdEntry(e) == ~(e.kind = "job" /\ e.jobId = "")

\* C3: no resident record has an empty jobId and every key is the jobId of its record;
\* an empty-jobId record passed to save_jobs, or found in a snapshot, is skipped: the
\* call ends as it would without that record (same store, same return, no error).
C3_NoEmptyKey ==
    /\ \A i \in 1..Len(jobs) : jobs[i].key # "" /\ jobs[i].val.jobId = jobs[i].key
    /\ last.op = "save_jobs" =>
        [jobs |-> jobs, ret |-> last.ret] = SaveJobs(last.before, SelectSeq(last.batch, HasId))
    /\ (last.op = "save_jobs" /\ \A i \in 1..Len(last.batch) : last.batch[i].jobId = "") =>
        jobs = last.before /\ last.ret = 0
    /\ (last.op = "load_from_file" /\ last.file.kind = "doc") =>
        LET r == LoadFromFile(last.before, Doc(SelectSeq(last.file.jobs, NotEmptyIdEntry)))
        IN jobs = r.jobs /\ last.raised = (r.ret = "raised")

\* a batch with an empty-id record and a new record was saved
C3_Witness ==
    /\ last.op = "save_jobs"
    /\ \E i \in 1..Len(last.batch) : last.batch[i].jobId = ""
    /\ last.ret = 1
    /\ Len(jobs) = Len(last.before) + 1

(***************************************************************************)
(* Claims on the fetch client and the pipeline, checked under SpecPipeline.*)
(***************************************************************************)
IsReq(e) == e.ev = "req"

\* the attempts of the page being requested, in order
PageReqs == SelectSeq(pageLog, IsReq)

\* the attempt ended in a 5xx response or in a transport failure
Faulty(e) == e.exc \/ e.status \in 500..599

\* the attempt ended in a 4xx response
ClientError(e) == ~e.exc /\ e.status \in 400..499

RECURSIVE ConcatJobs(_)
ConcatJobs(pages) ==
    IF pages = <<>> THEN <<>> ELSE Head(pages).jobs \o ConcatJobs(Tail(pages))

\* the requests.get calls of the current call of fetch_company_jobs
IssuedByFetch == issued - issuedAtCall

\* C4: while every request of a fetch is answered with 200, the first request carries no
\* pageToken and each following one carries exactly the nextPageToken of the response
\* before it; the fetch goes on past every response with a token, returns after the
\* first response without one, returns the pages' records concatenated in page order,
\* and has issued exactly one request per page.
C4_Pagination ==
    (cpc \in {"request", "returned"} /\ ~fetchFailed) =>
        /\ \A i \in 1..Len(pagesOk) :
            /\ pagesOk[i].sent.company = company
            /\ pagesOk[i].sent.pageToken = IF i = 1 THEN None ELSE pagesOk[i - 1].next
            /\ i < Len(pagesOk) => pagesOk[i].next # None
        /\ cpc = "request" =>
            /\ \A i \in 1..Len(pagesOk) : pagesOk[i].next # None
            /\ IssuedByFetch = page_num - 1
            /\ Len(pagesOk) = page_num - 1
        /\ cpc = "returned" =>
            /\ pagesOk # <<>>
            /\ pagesOk[Len(pagesOk)].next = None
            /\ all_jobs = ConcatJobs(pagesOk)
            /\ IssuedByFetch = page_num
            /\ Len(pagesOk) = page_num

\* page 1 with a token and 2 records, page 2 with no token and 1 record: 3 records, 2 requests
C4_Witness ==
    /\ cpc = "returned" /\ ~fetchFailed
    /\ Len(pagesOk) = 2
    /\ pagesOk[1].next = "t2" /\ Len(pagesOk[1].jobs) = 2
    /\ pagesOk[2].sent.pageToken = "t2"
    /\ pagesOk[2].next = None /\ Len(pagesOk[2].jobs) = 1
    /\ Len(all_jobs) = 3
    /\ IssuedByFetch = 2

\* C5: an attempt of a page is followed by another attempt of that page only when it
\* ended in a 5xx response or a transport failure (never after a 200 or a 4xx); a page
\* is retried at most max_retries times, attempted at most max_retries + 1 times.
C5_RetryOnlyOnFault ==
    /\ \A i \in 1..(Len(PageReqs) - 1) : Faulty(PageReqs[i])
    /\ (cpc = "request" /\ PageReqs # <<>>) => Faulty(PageReqs[Len(PageReqs)])
    /\ cpc = "request" => attempt = Len(PageReqs) /\ Len(PageReqs) <= max_retries
    /\ Len(PageReqs) <= max_retries + 1

\* a page answered with 200 at its last allowed attempt, after 5xx and transport failures
C5_Witness ==
    /\ cpc = "returned"
    /\ Len(PageReqs) = max_retries + 1
    /\ PageReqs[Len(PageReqs)].status = 200
    /\ \E i, j \in 1..max_retries : PageReqs[i].exc /\ PageReqs[j].status = 500

\* C6 as stated: a 4xx response is the only attempt of its page and no backoff wait
\* happens for that page; the fetch returns what the earlier pages gave.
C6_ClientErrorSingleAttempt ==
    \A i \in 1..Len(pageLog) :
        (IsReq(pageLog[i]) /\ ClientError(pageLog[i])) =>
            /\ pageLog = <<pageLog[i]>>
            /\ cpc = "returned"
            /\ all_jobs = ConcatJobs(pagesOk)

\* C6 as amended: a 4xx response is never retried: it is the last attempt of its page
\* and no backoff wait follows it (a page whose first response is a 4xx is attempted
\* exactly once, with no wait at all); pagination stops at once and the fetch returns
\* exactly the records of the pages that succeeded before it.
C6_ClientErrorNotRetried ==
    \A i \in 1..Len(pageLog) :
        (IsReq(pageLog[i]) /\ ClientError(pageLog[i])) =>
            /\ i = Len(pageLog)
            /\ cpc = "returned"
            /\ all_jobs = ConcatJobs(pagesOk)

\* page 1 succeeded with records, the first attempt of page 2 is answered with 404
C6_Witness ==
    /\ cpc = "returned"
    /\ Len(pagesOk) = 1 /\ all_jobs # <<>>
    /\ Len(pageLog) = 1
    /\ pageLog[1].status = 404
    /\ pageLog[1].params.pageToken = pagesOk[1].next

\* every allowed attempt of the page ended in a 5xx response or a transport failure
Exhausted == Len(PageReqs) = max_retries + 1 /\ \A i \in 1..Len(PageReqs) : Faulty(PageReqs[i])

\* C7: when the retries of a page are exhausted, in any mix of 5xx responses and
\* transport failures, fetch_company_jobs stops paginating, returns exactly the records
\* of the earlier successful pages, and raises nothing to its caller.
C7_ExhaustedReturnsPartial ==
    /\ cpc # "raised"
    /\ Exhausted => cpc = "returned" /\ all_jobs = ConcatJobs(pagesOk)

\* page 2 exhausted by a mix that ends in a transport failure, page 1's records returned
C7_Witness ==
    /\ Exhausted
    /\ PageReqs[Len(PageReqs)].exc
    /\ \E i \in 1..max_retries : PageReqs[i].status = 500
    /\ Len(pagesOk) = 1
    /\ all_jobs # <<>>

\* C8: the events of a page are attempt, wait, attempt, wait, ...: the wait before the
\* k-th retry is exactly 2^(k-1) seconds, after a 5xx and after a transport failure
\* alike; nothing is waited before the first attempt or after the last one, and every
\* retry is sent with the company and page token of the first attempt.
C8_Backoff ==
    /\ \A i \in 1..Len(pageLog) :
        IF i % 2 = 1
        THEN /\ pageLog[i].ev = "req"
             /\ pageLog[i].params = pageLog[1].params
             /\ pageLog[i].params.company = company
        ELSE /\ pageLog[i].ev = "sleep"
             /\ pageLog[i].secs = Pow2((i \div 2) - 1)
             /\ Faulty(pageLog[i - 1])
    /\ (cpc = "request" /\ pageLog # <<>>) => pageLog[Len(pageLog)].ev = "sleep"
    /\ (cpc # "request" /\ pageLog # <<>>) => pageLog[Len(pageLog)].ev = "req"
    /\ cpc = "request" => Len(pageLog) = 2 * attempt

\* page 2 was retried three times (waits 1, 2, 4) after both kinds of failure, then gave up
C8_Witness ==
    /\ cpc = "returned"
    /\ Len(pageLog) = 2 * max_retries + 1
    /\ pageLog[2].secs = 1 /\ pageLog[4].secs = 2 /\ pageLog[6].secs = 4
    /\ pageLog[1].exc /\ pageLog[3].status = 500
    /\ pageLog[1].params.pageToken = "t1"
    /\ Faulty(pageLog[Len(pageLog)])

\* C9 as stated: the request count is the number of attempts issued so far, whatever
\* their outcome.
C9_RequestCountIsIssued == request_count = issued

IsFetch(e) == e.ev = "fetch"

\* the companies fetch_company_jobs was called for, in order
Fetched ==
    LET f == SelectSeq(runLog, IsFetch) IN [i \in 1..Len(f) |-> f[i].company]

\* main has left its loop, or the run has ended
LoopOver == mpc \in {"export", "done", "crashed"}

\* C10 as stated: in a run with a non-empty list every company is fetched, in list
\* order and once, whatever the earlier companies gave; and what a fetch returns is
\* upserted before anything else is fetched.
C10_EveryEntityFetched ==
    /\ Len(Fetched) <= Len(companies)
    /\ \A i \in 1..Len(Fetched) : Fetched[i] = companies[i]
    /\ (LoopOver /\ companies # <<>>) => Fetched = companies
    /\ \A k \in 1..Len(runLog) :
        (runLog[k].ev = "return" /\ runLog[k].any) =>
            /\ k < Len(runLog)
            /\ runLog[k + 1].ev = "upsert"
            /\ runLog[k + 1].i = runLog[k].i

\* the records of a raw jobs list that normalize_job_data can build, in order
RECURSIVE Normalizable(_)
Normalizable(raw) ==
    IF raw = <<>> THEN <<>>
    ELSE IF Head(raw).kind = "job"
         THEN <<JobModel(Head(raw))>> \o Normalizable(Tail(raw))
         ELSE Normalizable(Tail(raw))

\* C11 as stated: when a fetch has returned raw records, whatever they are (also a
\* null in the jobs list), the step of main that follows upserts every record that
\* can be normalised, skips the others, and goes on to the next company or to the
\* export; the run is never aborted.
C11_BadRecordSkipped ==
    [][(mpc = "fetching" /\ cpc = "returned" /\ all_jobs # <<>>) =>
            /\ mpc' \in {"loop", "export"}
            /\ jobs' = SaveJobs(jobs, Normalizable(all_jobs)).jobs]_vars

\* the request for the company list did not give a non-empty list
NoCompanyList(o) == o.exc \/ o.status \in 400..599 \/ o.companies = <<>>

\* C12: fetch_company_list issues one request and never a second one; when that
\* request fails in transport, is answered with an HTTP error status, or gives an
\* empty list, the run is over with nothing done: no job request was issued, no
\* record was upserted, no snapshot file was written.
C12_NoListNoWork ==
    /\ Len(listLog) <= 1
    /\ mpc # "start" => Len(listLog) = 1
    /\ (listLog # <<>> /\ NoCompanyList(listLog[1])) =>
        /\ mpc = "done"
        /\ companies = <<>>
        /\ issued = 0 /\ request_count = 0
        /\ runLog = <<>>
        /\ jobs = EmptyDict
        /\ file = Absent /\ wr = "idle"

\* the list request was answered 500 with a body that names companies; the run is over
C12_Witness ==
    /\ mpc = "done"
    /\ listLog # <<>>
    /\ listLog[1].status = 500
    /\ listLog[1].companies # <<>>
    /\ issued = 0

(***************************************************************************)
(* Claims on load_from_file, checked under Spec.                           *)
(***************************************************************************)
\* C13: load_from_file on a path that does not exist returns without raising and
\* leaves the mapping of the store exactly as it was before the call.
C13_MissingFileNoChange ==
    (last.op = "load_from_file" /\ last.file.kind = "absent") =>
        /\ ~last.raised
        /\ jobs = last.before

\* a store with records was asked to load a path that does not exist
C13_Witness ==
    /\ last.op = "load_from_file"
    /\ last.file.kind = "absent"
    /\ last.before # EmptyDict
    /\ jobs # EmptyDict

\* the positions of a jobs list whose entry builds a Record with a non-empty jobId
ValidAt(es) == {i \in 1..Len(es) : es[i].kind = "job" /\ es[i].jobId # ""}

\* the last of them that carries this id
LastValidAt(es, id) == Max({i \in ValidAt(es) : es[i].jobId = id})

C15_BadEntrySkipped ==
    (last.op = "load_from_file" /\ last.file.kind = "doc") =>
        /\ ~last.raised
        /\ \A i \in ValidAt(last.file.jobs) : Has(jobs, last.file.jobs[i].jobId)

(***************************************************************************)
(* Claims on the export and on the reads of the store.                     *)
(***************************************************************************)
\* C16 as stated: while save_to_file overwrites an existing snapshot, the path holds
\* at every point either the complete previous snapshot or the complete new one,
\* never a truncated or partly written file.  (Checked under SpecSnapshot.)
C16_AtomicOverwrite ==
    [][file.kind = "doc" => (file' = file \/ file' = ExportData(jobs))]_vars

\* a step of save_to_file, by the harness or by main
ExportStep == wr = "open" \/ wr' = "open" \/ last'.op = "save_to_file" \/ mpc = "export"

\* a step that completes get_job, count, get_all_jobs or get_total_applicants
ReadStep == last'.op \in {"get_job", "count", "get_all_jobs", "get_total_applicants"}

\* the sum of applicants over the values of a store, entry by entry
RECURSIVE SumApplicants(_)
SumApplicants(store) ==
    IF store = <<>> THEN 0 ELSE Head(store).val.applicants + SumApplicants(Tail(store))

\* C17: no step of save_to_file changes the store, whether the export succeeds or
\* fails; a caller of save_to_file is returned to normally only when the path holds the
\* new snapshot, and gets the exception otherwise; in main a failed export ends the
\* export step only: the store is kept and the summary is produced from it.  The reads
\* get_job, count, get_all_jobs and get_total_applicants leave the store unchanged.
\* (Checked under SpecProgram.)
C17_ExportKeepsStore ==
    [][/\ (ExportStep \/ ReadStep) => jobs' = jobs
       /\ (mpc = "harness" /\ ExportStep /\ wr' = "idle") =>
            /\ last'.op = "save_to_file"
            /\ ~last'.raised => file' = ExportData(jobs)
            /\ file' # ExportData(jobs) => last'.raised
       /\ (mpc = "export" /\ wr' = "idle") =>
            /\ mpc' = "done"
            /\ Len(runLog') = Len(runLog) + 1
            /\ runLog'[Len(runLog')].ev = "summary"
            /\ runLog'[Len(runLog')].total_jobs = Len(jobs)
            /\ runLog'[Len(runLog')].total_applicants = SumApplicants(jobs)]_vars

\* main's export failed in the write: the path holds a truncated file, the store still
\* holds its records and the summary reports them
C17_Witness ==
    /\ mpc = "done"
    /\ file = Corrupt
    /\ jobs # EmptyDict
    /\ runLog # <<>>
    /\ runLog[Len(runLog)].ev = "summary"
    /\ runLog[Len(runLog)].total_jobs = Len(jobs)

\* what the id contributes: applicants of its latest record since the last clear or
\* load, or of the record that clear or load left, or nothing
Contribution(id) ==
    IF Occ(id) # {} THEN hist[Max(Occ(id))].applicants
    ELSE IF Has(base, id) THEN Get(base, id).applicants
    ELSE 0

RECURSIVE SumOver(_)
SumOver(ids) ==
    IF ids = {} THEN 0
    ELSE LET id == CHOOSE x \in ids : TRUE IN Contribution(id) + SumOver(ids \ {id})

\* C18: get_total_applicants returns the sum of applicants over exactly the resident
\* records, after any sequence of save_jobs, load_from_file and clear: a replaced
\* record counts with its latest value only, a cleared or replaced-away record not at
\* all, and the empty store gives 0.  (Checked under SpecSnapshot.)
C18_TotalApplicants ==
    last.op = "get_total_applicants" =>
        /\ last.ret = SumOver(JobIds \ {""})
        /\ jobs = EmptyDict => last.ret = 0

\* A (30 applicants) was saved, then replaced by a record with 0 and B (25) added
C18_Witness ==
    /\ last.op = "get_total_applicants"
    /\ Len(hist) = 3
    /\ hist[1].jobId = "A" /\ hist[1].applicants = 30
    /\ hist[2].jobId = "A" /\ hist[2].applicants = 0
    /\ hist[3].jobId = "B" /\ hist[3].applicants = 25
    /\ last.ret = 25

(***************************************************************************)
(* Claims on the record model and on normalize_date, checked under         *)
(* SpecRecord.                                                             *)
(***************************************************************************)
\* the days of month m of year y, by the rule of the Gregorian calendar
CalendarDays(y, m) ==
    CASE m \in {1, 3, 5, 7, 8, 10, 12} -> 31
      [] m \in {4, 6, 9, 11} -> 30
      [] OTHER -> IF (y % 400 = 0) \/ (y % 4 = 0 /\ y % 100 # 0) THEN 29 ELSE 28

\* s is a calendar date written YYYY-MM-DD: four, two and two digits
IsIsoDate(s) ==
    /\ Len(s) = 10
    /\ At(s, 5) = "-" /\ At(s, 8) = "-"
    /\ \A i \in {1, 2, 3, 4, 6, 7, 9, 10} : At(s, i) \in {At("0123456789", k) : k \in 1..10}
    /\ LET y == Num(SubSeq(s, 1, 4))
           m == Num(SubSeq(s, 6, 7))
           d == Num(SubSeq(s, 9, 10))
       IN  y >= 1 /\ m \in 1..12 /\ d \in 1..CalendarDays(y, m)

\* C19: every record that is constructed has workType among Remote, On-site, Hybrid
\* and Unknown, applicants an integer >= 0, and postedDate either a valid calendar
\* date in YYYY-MM-DD form or exactly "Unknown", never a raw unparsed string.
C19_RecordInvariants ==
    (conv.op = "JobModel" /\ conv.exc = "") =>
        /\ conv.rec.workType \in
               {PyStr("Remote"), PyStr("On-site"), PyStr("Hybrid"), PyStr("Unknown")}
        /\ conv.rec.applicants.t \in {"int", "bool"}
        /\ conv.rec.applicants.n >= 0
        /\ conv.rec.postedDate.t = "str"
        /\ \/ conv.rec.postedDate.s = "Unknown"
           \/ IsIsoDate(conv.rec.postedDate.s)

\* C20: normalize_date is total: for every input it returns a valid YYYY-MM-DD string
\* or exactly "Unknown"; it never raises and never returns the unparsed input.
C20_NormalizeDateTotal ==
    conv.op = "normalize_date" =>
        /\ conv.exc = ""
        /\ conv.ret = "Unknown" \/ IsIsoDate(conv.ret)

(***************************************************************************)
(* Claims on the life cycle of the store, checked under Spec.              *)
(***************************************************************************)
\* C24: the store starts empty and save_jobs never removes a key: the key set after
\* a save_jobs call includes the key set before it, and count() after the call is
\* count() before it plus the returned number; keys disappear only through clear()
\* or through load_from_file on an existing snapshot.
C24_KeysOnlyGrow ==
    /\ jobs = EmptyDict
    /\ [][ /\ (last'.op = "save_jobs" /\ hist' = hist \o last'.batch) =>
               /\ Keys(jobs) \subseteq Keys(jobs')
               /\ Cardinality(Keys(jobs')) = Cardinality(Keys(jobs)) + last'.ret
           /\ (Keys(jobs) \ Keys(jobs') # {}) =>
               \/ last'.op = "clear"
               \/ last'.op = "load_from_file" /\ last'.file.kind # "absent" ]_vars

\* a batch of a resident id and a new id was saved into a store with records
C24_Witness ==
    /\ last.op = "save_jobs"
    /\ last.before # EmptyDict
    /\ Len(last.batch) = 2
    /\ \E i \in 1..2 : Has(last.before, last.batch[i].jobId)
    /\ last.ret = 1
    /\ Cardinality(Keys(jobs)) = Cardinality(Keys(last.before)) + 1

\* C28 as stated: whenever load_from_file raises (an unparsable file, a document
\* whose top level or jobs value has the wrong shape, an entry that is no key-value
\* object), the store holds exactly what it held before the call.
C28_LoadAllOrNothing ==
    (last.op = "load_from_file" /\ last.raised) => jobs = last.before

(***************************************************************************)
(* Claims on the snapshot as a copy of the store, checked under            *)
(* SpecSnapshot.                                                           *)
(***************************************************************************)
\* the entry of a document that carries this id
EntryOf(f, id) == f.jobs[CHOOSE i \in 1..Len(f.jobs) : f.jobs[i].jobId = id]

\* document f and the store have the same keys and, key by key, the same fields,
\* and the metadata of f counts the entries of f
SameContents(f, store) ==
    /\ f.kind = "doc"
    /\ f.total_jobs = Len(f.jobs)
    /\ Len(f.jobs) = Cardinality(Keys(store))
    /\ {f.jobs[i].jobId : i \in 1..Len(f.jobs)} = Keys(store)
    /\ \A id \in Keys(store) :
        LET e == EntryOf(f, id)
            r == Get(store, id)
        IN e.jobId = r.jobId /\ e.title = r.title /\ e.applicants = r.applicants

IsSummary(e) == e.ev = "summary"

\* the call of fetch_company_jobs for company k has returned and, when it returned
\* records, their upsert has followed
Completed(k) ==
    \E n \in 1..Len(runLog) :
        /\ runLog[n].ev = "return"
        /\ runLog[n].i = k
        /\ runLog[n].any =>
            (n < Len(runLog) /\ runLog[n + 1].ev = "upsert" /\ runLog[n + 1].i = k)

\* the run has ended: main returned, or an exception left it
RunOver == mpc \in {"done", "crashed"}

\* C23 as stated: within a run no operation overlaps another: a request is in flight
\* only inside the one running fetch, the first request of company k+1 is issued
\* only after the upsert of company k has completed, and the snapshot is exported
\* exactly once, only after the upsert of the last company, so that it holds exactly
\* the final contents of the store.
C23_Sequential ==
    /\ cpc # "idle" => (mpc = "fetching" /\ wr = "idle")
    /\ cpc = "request" => \A k \in 1..(idx - 1) : Completed(k)
    /\ (wr = "open" \/ file.kind # "absent") =>
        (mpc \in {"export", "done"} /\ \A k \in 1..Len(companies) : Completed(k))
    /\ Len(SelectSeq(runLog, IsSummary)) <= 1
    /\ (RunOver /\ companies # <<>>) => Len(SelectSeq(runLog, IsSummary)) = 1
    /\ (mpc = "done" /\ file.kind = "doc") => SameContents(file, jobs)

\* the token the attempts of pageLog must carry: that of the last page answered
\* with 200 before the page they ask for, none for the first page
TokenDue ==
    LET done == IF PageReqs # <<>> /\ ~PageReqs[Len(PageReqs)].exc
                                  /\ PageReqs[Len(PageReqs)].status = 200
                THEN Len(pagesOk) - 1 ELSE Len(pagesOk)
    IN  IF done = 0 THEN None ELSE pagesOk[done].next

\* C26: retries neither duplicate nor lose records: whatever attempts failed, the
\* list of fetch_company_jobs holds the records of each page answered with 200
\* exactly once, in page order, and nothing else; every attempt of a page, the first
\* and each retry, carries the token of the page answered before it, so a page that
\* succeeds after failed attempts continues the pagination as if it had succeeded
\* at once.
C26_RetriesKeepRecords ==
    cpc \in {"request", "returned"} =>
        /\ all_jobs = ConcatJobs(pagesOk)
        /\ \A i \in 1..Len(pagesOk) :
            pagesOk[i].sent = [company |-> company,
                               pageToken |-> IF i = 1 THEN None ELSE pagesOk[i - 1].next]
        /\ \A i \in 1..Len(PageReqs) :
            PageReqs[i].params = [company |-> company, pageToken |-> TokenDue]

\* page 1 gave a token and records; page 2 failed, was retried and then answered
\* with 200 and one record
C26_Witness ==
    /\ cpc = "returned"
    /\ fetchFailed
    /\ Len(pagesOk) = 2
    /\ pagesOk[1].next = "t1"
    /\ Len(PageReqs) >= 2
    /\ Faulty(PageReqs[1])
    /\ PageReqs[Len(PageReqs)].status = 200
    /\ PageReqs[Len(PageReqs)].params.pageToken = "t1"
    /\ Len(pagesOk[1].jobs) = 2 /\ Len(pagesOk[2].jobs) = 1
    /\ Len(all_jobs) = 3

(***************************************************************************)
(* Claim on termination, checked under SpecLive.                           *)
(***************************************************************************)
\* C25 as stated: fetch_company_jobs terminates for every behaviour of the source,
\* also one that returns a continuation token on every page or repeats a token: a
\* fetch that was called eventually returns, and main goes on to the next company
\* or to the export.
C25_FetchTerminates == (mpc = "fetching") ~> (mpc # "fetching")

(***************************************************************************)
(* Claims on the normalisation of locations, checked under SpecRecord.     *)
(***************************************************************************)
\* the work arrangement a text names in any letter case and with any surrounding
\* whitespace, "" when it names none
ArrangementOf(text) ==
    LET word == Lower(Strip(text)) IN
    CASE word = "remote" -> "Remote"
      [] word \in {"on-site", "onsite", "on site"} -> "On-site"
      [] word = "hybrid" -> "Hybrid"
      [] OTHER -> ""

\* the same for a raw location: a plain string, or the city of a structured location
KeywordOf(raw) ==
    IF raw.t = "str" THEN ArrangementOf(raw.s)
    ELSE IF raw.t = "dict" /\ raw.s # "" /\ raw.city.t = "str"
         THEN ArrangementOf(raw.city.s)
    ELSE ""

\* C21: a raw location that is a work-arrangement keyword (remote; on-site, onsite,
\* on site; hybrid) in any letter case and with any surrounding whitespace, as a
\* plain string or as the city of a structured location, normalizes to the location
\* "Unknown" with the matching arrangement, and the record built by
\* normalize_job_data carries both; for every other location the record's
\* arrangement is Unknown.
C21_KeywordLocations ==
    /\ (conv.op = "normalize_location" /\ KeywordOf(conv.location) # "")
          => conv.loc = WorkTypeResult(KeywordOf(conv.location))
    /\ (conv.op = "normalize_job_data" /\ conv.exc = "")
          => IF KeywordOf(conv.location) # ""
             THEN /\ conv.job.location = "Unknown"
                  /\ conv.job.workType = PyStr(KeywordOf(conv.location))
             ELSE conv.job.workType = PyStr("Unknown")

\* a record built from a structured location whose city is a keyword in capitals
\* and padded, while the raw job names another arrangement
C21_Witness ==
    /\ conv.op = "normalize_job_data"
    /\ conv.exc = ""
    /\ conv.location.t = "dict"
    /\ conv.location.s # ""
    /\ conv.location.city = PyStr(" Remote ")
    /\ conv.workType = PyStr("Hybrid")
    /\ conv.job.location = "Unknown"
    /\ conv.job.workType = PyStr("Remote")

\* the comma-separated parts of a string, each trimmed
TrimmedParts(text) ==
    LET split == Split(text, ",") IN [i \in 1..Len(split) |-> Strip(split[i])]

\* "City, Region" for a country that is an alias of the United States, else
\* "City, Country"
Collapsed(city, region, country) ==
    IF Lower(country) \in {"usa", "us", "united states", "united states of america"}
    THEN city \o ", " \o region
    ELSE city \o ", " \o country

\* a structured location with its three sub-fields present
AllThreePresent(raw) ==
    /\ raw.t = "dict"
    /\ raw.s # ""
    /\ SubField(raw.city) # ""
    /\ SubField(raw.state) # ""
    /\ SubField(raw.country) # ""

\* a text that normalize_location answers before it standardizes: empty, a
\* work-arrangement keyword, or a word for an unknown location
IsSpecialText(text) ==
    \/ Strip(text) = ""
    \/ ArrangementOf(text) # ""
    \/ Lower(Strip(text)) \in {"unknown", "n/a", "na", "not available", "not specified"}

\* C22 as stated: a string of exactly three comma-separated parts collapses to
\* "City, Region" or "City, Country"; a string with fewer than three parts is
\* returned unchanged; a structured location with all three sub-fields present
\* follows the same collapsing rule.
C22_AsStated ==
    conv.op = "normalize_location" =>
        LET raw == conv.location IN
        /\ (raw.t = "str" /\ Len(TrimmedParts(raw.s)) = 3)
              => conv.loc = StrResult(Collapsed(TrimmedParts(raw.s)[1],
                                                TrimmedParts(raw.s)[2],
                                                TrimmedParts(raw.s)[3]))
        /\ (raw.t = "str" /\ Len(TrimmedParts(raw.s)) < 3)
              => conv.loc = StrResult(raw.s)
        /\ AllThreePresent(raw)
              => conv.loc = StrResult(Collapsed(SubField(raw.city), SubField(raw.state),
                                                SubField(raw.country)))

\* C22, amended: a string of exactly three comma-separated parts collapses to
\* "City, Region" or "City, Country", the parts trimmed; a string with fewer than
\* three parts is returned trimmed of its surrounding whitespace and otherwise
\* unchanged, unless it is empty, a work-arrangement keyword or a word for an
\* unknown location; a structured location with all three sub-fields present
\* follows the same collapsing rule unless its city is such a keyword or word.
C22_Collapsing ==
    conv.op = "normalize_location" =>
        LET raw == conv.location IN
        /\ (raw.t = "str" /\ Len(TrimmedParts(raw.s)) = 3)
              => conv.loc = StrResult(Collapsed(TrimmedParts(raw.s)[1],
                                                TrimmedParts(raw.s)[2],
                                                TrimmedParts(raw.s)[3]))
        /\ (raw.t = "str" /\ Len(TrimmedParts(raw.s)) < 3 /\ ~IsSpecialText(raw.s))
              => conv.loc = StrResult(Strip(raw.s))
        /\ (AllThreePresent(raw) /\ ~IsSpecialText(SubField(raw.city)))
              => conv.loc = StrResult(Collapsed(SubField(raw.city), SubField(raw.state),
                                                SubField(raw.country)))

\* a three-part string with an alias of the United States in mixed case and spaces
\* around the commas has been collapsed to city and region
C22_Witness ==
    /\ conv.op = "normalize_location"
    /\ conv.location = PyStr("A , B , Us")
    /\ conv.loc = StrResult("A, B")

=============================================================================
